---- MODULE Spec2Model ----
(***************************************************************************)
(* The per-IP rate limiter of gin-template (internal/middlewares,          *)
(* rate_limit.go): one IPRateLimiter instance, the request handlers that   *)
(* consult it (GetLimiter, then Allow on the bucket returned), the         *)
(* exported CleanupOldLimiters and the clock.                              *)
(*                                                                         *)
(* Time is counted in milliseconds.  A bucket's token count is kept in     *)
(* TokenUnit-ths of a token, so that the refill of every policy of the     *)
(* source (rate.Every(time.Second), rate.Every(time.Minute), n per second) *)
(* is a whole number of units per millisecond; a rate is given in units    *)
(* per millisecond.  The library's float64 arithmetic is modelled exactly  *)
(* (no rounding).                                                          *)
(***************************************************************************)
EXTENDS Integers, FiniteSets, Sequences, TLC

\* ---------------------------------------------------------------- bounds
\* Request handlers that can be in flight at once.
MaxHandlers == 2
\* The clock runs for this many refill intervals of the registry's policy.
MaxIntervals == 1
\* CleanupOldLimiters is called at most this many times in a behaviour.
MaxCleanups == 1
\* Goroutines serving Register and Login at once.
MaxAuthHandlers == 2
\* Requests Register and Login take in a behaviour.
MaxAuthRequests == 3
\* The clock of the token specifications runs for this many half hours.
MaxHalfHours == 3
\* The clock read by generateRequestID advances this many times.
MaxClockSteps == 5
\* Quarters of a minute the shutdown is followed for.
MaxQuarters == 4
\* Clients other than the named ones arrive CrowdBatch at a time.
CrowdBatch == 1500
MaxCrowd == CrowdBatch

\* The client IPs whose buckets are followed individually.
IPs == {"1.2.3.4", "9.9.9.9"}

\* -------------------------------------------------------- program constants
SecondMs == 1000
MinuteMs == 60000
GlobalBurst == 10
AuthBurst == 5
CleanupThreshold == 1000
CleanupCount == 500
DefaultRateLimitRPS == 10
DefaultRateLimitBurst == 20
DefaultAuthRateLimit == 5

\* Units per token: every rate of the source divides it.
TokenUnit == MinuteMs

Min(a, b) == IF a < b THEN a ELSE b

\* ----------------------------------------------------------- configuration
Unset == -1

\* The environments the process is started in: nothing set, and the values of
\* the production compose file.
Envs ==
  { [RATE_LIMIT_RPS |-> Unset, RATE_LIMIT_BURST |-> Unset, AUTH_RATE_LIMIT |-> Unset],
    [RATE_LIMIT_RPS |-> 5, RATE_LIMIT_BURST |-> 10, AUTH_RATE_LIMIT |-> 3] }

\* getIntEnv / getFloat64Env: the value when set (and parsed), else the fallback.
getIntEnv(value, fallback) == IF value # Unset THEN value ELSE fallback

\* LoadConfig: the Security section.
LoadConfig(env) ==
  [ RateLimitRPS   |-> getIntEnv(env.RATE_LIMIT_RPS, DefaultRateLimitRPS),
    RateLimitBurst |-> getIntEnv(env.RATE_LIMIT_BURST, DefaultRateLimitBurst),
    AuthRateLimit  |-> getIntEnv(env.AUTH_RATE_LIMIT, DefaultAuthRateLimit) ]

\* ------------------------------------------------------------ token bucket
\* rate.Every(interval): one token per interval.
Every(intervalMs) == TokenUnit \div intervalMs

\* rate.Limit(rps): rps tokens per second.
PerSecond(rps) == (rps * TokenUnit) \div SecondMs

\* Milliseconds that refill one token at the given rate.
Interval(limit) == TokenUnit \div limit

\* A slot of the heap that holds no limiter.
NoLimiter ==
  [used |-> FALSE, limit |-> 0, burst |-> 0, tokens |-> 0, last |-> 0,
   for |-> "", age |-> 0, admitted |-> 0]

\* rate.NewLimiter(r, b): a full bucket (tokens: float64(b), last: the zero
\* time).  for, age and admitted are history, not fields of the limiter: the
\* IP it was made for, the time since construction, and the checks admitted
\* since then; the last two are kept only until one refill interval of the
\* registry's policy has passed.
NewLimiter(r, b) ==
  [used |-> TRUE, limit |-> r, burst |-> b, tokens |-> b * TokenUnit, last |-> 0,
   for |-> "", age |-> 0, admitted |-> 0]

\* Limiter.advance(t): the tokens the bucket holds at t, capped at burst.
Advance(l, t) ==
  LET last    == IF t < l.last THEN t ELSE l.last
      elapsed == t - last
      delta   == elapsed * l.limit
  IN  Min(l.tokens + delta, l.burst * TokenUnit)

\* Limiter.Allow() at time t: whether one token is available after the refill.
AllowOk(l, t) == 1 <= l.burst /\ Advance(l, t) - TokenUnit >= 0

\* Limiter.Allow() at time t: the bucket afterwards (unchanged on reject).
AllowState(l, t) ==
  IF AllowOk(l, t)
    THEN [l EXCEPT !.tokens = Advance(l, t) - TokenUnit, !.last = t]
    ELSE l

\* ---------------------------------------------------------------- state
VARIABLES
  cfg,        \* config.Cfg.Security as LoadConfig left it
  rl,         \* the IPRateLimiter: name, rate, burst, limiters (IP -> heap slot)
  others,     \* entries of rl.limiters for IPs other than the named ones
  mu,         \* rl.mu: who holds it
  heap,       \* the rate.Limiter objects, by slot
  now,        \* the clock, ms
  pc,         \* per handler: where it is
  ip,         \* per handler: c.ClientIP()
  lim,        \* per handler: the limiter variable (a heap slot, 0: nil)
  ok,         \* per handler: what limiter.Allow() returned
  waited,     \* per handler, history: its check found the bucket empty, one
              \* refill interval after the bucket's last admission
  cleanupPc,  \* the caller of CleanupOldLimiters: where it is
  cleanups,   \* CleanupOldLimiters calls so far
  regs,       \* the router's registries: per registry and IP, the bucket
  crowd,      \* per registry of the router: entries of IPs other than the named
  rq,         \* the request the router is dispatching, and its response
  served,     \* requests to /api routes so far from IPs other than the first
  jwtSecret,  \* os.Getenv("JWT_SECRET")
  jwtExpMinutes, \* os.Getenv("JWT_EXP_MINUTES")
  users,      \* the users table, in order of insertion
  req,        \* per auth handler: its request, its locals and its response
  registered, \* history: the registrations answered 201
  requests,   \* requests the auth handlers have taken so far
  requestID,  \* per handler: the X-Request-ID header of its response
  database,   \* the db handle of the handlers and the state of its connection
  server      \* main and its http.Server: how far the shutdown has come

\* The state of the router with all its registries.
routeVars == <<regs, crowd, rq, served>>

\* The state of one registry and its callers.
limiterVars == <<cfg, rl, others, mu, heap, now, pc, ip, lim, ok, waited, cleanupPc, cleanups>>

\* The state of the users table and of the handlers Register and Login.
\* The environment variables that internal/auth reads.
jwtEnv == <<jwtSecret, jwtExpMinutes>>

authVars == <<jwtEnv, users, req, registered, requests>>

\* The state of the process around the router.
processVars == <<requestID, database, server>>

vars == <<limiterVars, routeVars, authVars, processVars>>

Handlers == 1..MaxHandlers
Slots == 1..(Cardinality(IPs) + MaxHandlers)
Nil == 0
NoIP == ""

Free == <<"free", 0>>
HeldByHandler(h) == <<"handler", h>>
HeldByCleanup == <<"cleanup", 0>>

\* NewIPRateLimiter(rps, burst): an empty registry.
NewIPRateLimiter(name, rps, burst) ==
  [name |-> name, limiters |-> [i \in IPs |-> Nil], rate |-> rps, burst |-> burst]

\* var globalRateLimiter = NewIPRateLimiter(rate.Every(time.Second), 10)
globalRateLimiter == NewIPRateLimiter("general", Every(SecondMs), GlobalBurst)

\* An auth registry whose buckets hold one token more.
authLimiterLoose == NewIPRateLimiter("auth", Every(MinuteMs), AuthBurst + 1)

\* AuthRateLimit(): authLimiter := NewIPRateLimiter(rate.Every(time.Minute), 5)
authLimiter == NewIPRateLimiter("auth", Every(MinuteMs), AuthBurst)

\* RateLimitWithConfig(rps, burst): rateLimiter := NewIPRateLimiter(rps, burst)
rateLimiter(rps, burst) == NewIPRateLimiter("custom", rps, burst)

\* The registries that guard the routes of RegisterAPIRoutes.
ServedRegistries == {globalRateLimiter, authLimiter}

\* The arguments RateLimitWithConfig is given here.
CustomRegistries == {rateLimiter(PerSecond(2), b) : b \in {1, 2}}

\* len(rl.limiters)
Size(r, o) == Cardinality({i \in IPs : r.limiters[i] # Nil}) + o

\* The slots something still points to; the rest is garbage.
Referenced(r, l) == ({r.limiters[i] : i \in IPs} \cup {l[h] : h \in Handlers}) \ {Nil}

Collect(hp, r, l) == [s \in Slots |-> IF s \in Referenced(r, l) THEN hp[s] ELSE NoLimiter]

FreeSlot == CHOOSE s \in Slots : ~heap[s].used /\ \A t \in Slots : ~heap[t].used => s <= t

\* The registries of the router: the package variable globalRateLimiter and
\* one registry for each call of AuthRateLimit() in RegisterAPIRoutes.
AuthRegistries == {"auth", "legacyRegister", "legacyLogin"}

Registries == {"general"} \cup AuthRegistries

\* The Authorization header: the text up to the first space, and the fields
\* after it (tokens, separated by spaces). No header is the empty string.
NoHeader == [scheme |-> <<>>, rest |-> <<>>]

\* No request is being dispatched.
NoRequest ==
  [phase |-> "none", route |-> "", ip |-> NoIP, json |-> FALSE, auth |-> NoHeader,
   index |-> 0, ran |-> {}, rejectedBy |-> "none", handled |-> FALSE,
   status |-> 0, success |-> FALSE, code |-> ""]

\* No X-Request-ID header.
NoID == <<>>

\* The process has started and serves no request.
\* main blocks on <-quit while the server listens.
\* History: pending, a request was in flight when the signal arrived.
Listening ==
  [phase |-> "listening", deadline |-> 0, forced |-> FALSE, closed |-> FALSE,
   pending |-> FALSE]

InitProcess ==
  /\ requestID = [h \in 1..MaxHandlers |-> NoID]
  /\ database = "ok"
  /\ server = Listening

\* RegisterAPIRoutes has run: every registry is empty.
InitRoutes ==
  /\ InitProcess
  /\ regs = [r \in Registries |-> [i \in IPs |-> NoLimiter]]
  /\ crowd = [r \in Registries |-> 0]
  /\ rq = NoRequest
  /\ served = 0

\* The goroutines that run Register and Login at the same time.
AuthHandlers == 1..MaxAuthHandlers

\* JWT_SECRET is not set.
NoSecret == ""

\* The values of JWT_SECRET: unset, and the one the tests set.
Secrets == {NoSecret, "testsecret"}

\* The zero values of the handlers' locals and of the response data.
NoHash == [bcrypt |-> <<>>]

NoUser == [ID |-> 0, Username |-> <<>>, Email |-> <<>>, Password |-> NoHash]

NoToken ==
  [UserID |-> 0, Email |-> <<>>, alg |-> "", key |-> NoSecret, ExpiresAt |-> 0,
   IssuedAt |-> 0]

NoSafeUser == [id |-> 0, username |-> <<>>, email |-> <<>>]

NoBody == [username |-> <<>>, email |-> <<>>, password |-> <<>>]

NoResponse ==
  [status |-> 0, success |-> FALSE, code |-> "", message |-> "", details |-> "",
   token |-> NoToken, user |-> NoSafeUser]

\* An auth handler that is serving no request.
NoAuthRequest ==
  [pc |-> "idle", op |-> "none", body |-> NoBody, user |-> NoUser,
   known |-> {}, resp |-> NoResponse]

\* JWT_EXP_MINUTES is not set.
NoValue == <<>>

\* The user of the tests: a username, an email, a password. Strings are
\* sequences of one-character strings.
Ana == <<"a", "n", "a">>

AnaMail == <<"a", "@", "x", ".", "i", "o">>

Pass1 == <<"P", "a", "s", "s", "w", "0", "r", "d", "!">>

\* The users table after that user registered.
OneUser ==
  << [ID |-> 1, Username |-> Ana, Email |-> AnaMail, Password |-> [bcrypt |-> Pass1]] >>

\* Database migrated, the table as given, no request in flight.
InitUsers(secrets, expirations, tables) ==
  /\ jwtSecret \in secrets
  /\ jwtExpMinutes \in expirations
  /\ users \in tables
  /\ req = [h \in AuthHandlers |-> NoAuthRequest]
  /\ registered = {}
  /\ requests = 0

\* One registry, just constructed, and its callers.
InitLimiter(registries, envs) ==
  /\ cfg \in {LoadConfig(e) : e \in envs}
  /\ rl \in registries
  /\ others = 0
  /\ mu = Free
  /\ heap = [s \in Slots |-> NoLimiter]
  /\ now = 0
  /\ pc = [h \in Handlers |-> "idle"]
  /\ ip = [h \in Handlers |-> NoIP]
  /\ lim = [h \in Handlers |-> Nil]
  /\ ok = [h \in Handlers |-> FALSE]
  /\ waited = [h \in Handlers |-> FALSE]
  /\ cleanupPc = "idle"
  /\ cleanups = 0

InitWith(registries, envs) ==
  /\ InitRoutes
  /\ InitUsers({"testsecret"}, {NoValue}, {OneUser})
  /\ InitLimiter(registries, envs)

Init == InitWith(ServedRegistries \cup CustomRegistries, {CHOOSE e \in Envs : e.RATE_LIMIT_RPS = Unset})

\* ------------------------------------------------------------- the mutex
\* A lock that does not wait for the holder to release it.
LockWithoutWaiting(who) == mu' = who

\* rl.mu.Lock(): blocks while the mutex is held.
Lock(who) == mu = Free /\ mu' = who

\* A return path that leaves the mutex held.
UnlockForgotten(who) == mu' = mu

\* rl.mu.Unlock(), deferred.
Unlock(who) == mu' = Free

\* ------------------------------------------------------- request handlers
\* A request arrives and the middleware reads ip := c.ClientIP().  The free
\* handler with the least number takes it (handlers are interchangeable).
Request(h, i) ==
  /\ pc[h] = "idle"
  /\ \A g \in Handlers : g < h => pc[g] # "idle"
  /\ pc' = [pc EXCEPT ![h] = "getLimiter"]
  /\ ip' = [ip EXCEPT ![h] = i]
  /\ UNCHANGED <<processVars, authVars, routeVars, cfg, rl, others, mu, heap, now, lim, ok, waited, cleanupPc, cleanups>>

\* A lookup that never finds the entry.
LookupMisses(r, i) == Nil

\* limiter, exists := rl.limiters[ip]
Lookup(r, i) == r.limiters[i]

\* A store that puts the limiter under every key.
StoreUnderEveryKey(r, i, s) == [r EXCEPT !.limiters = [j \in IPs |-> s]]

\* rl.limiters[ip] = limiter
Store(r, i, s) == [r EXCEPT !.limiters[i] = s]

\* GetLimiter, first half: rl.mu.Lock(); limiter, exists := rl.limiters[ip]
GetLimiterLock(h) ==
  /\ pc[h] = "getLimiter"
  /\ Lock(HeldByHandler(h))
  /\ lim' = [lim EXCEPT ![h] = Lookup(rl, ip[h])]
  /\ pc' = [pc EXCEPT ![h] = "locked"]
  /\ UNCHANGED <<processVars, authVars, routeVars, cfg, rl, others, heap, now, ip, ok, waited, cleanupPc, cleanups>>

\* Limiters constructed with one token fewer, one token more, or half the
\* refill rate of the registry's policy.
CreateLimiterShort(r) == NewLimiter(r.rate, r.burst - 1)

CreateLimiterOverfull(r) == NewLimiter(r.rate, r.burst + 1)

CreateLimiterSlow(r) == NewLimiter(r.rate \div 2, r.burst)

\* The limiter GetLimiter constructs on a miss.
CreateLimiter(r) == NewLimiter(r.rate, r.burst)

\* GetLimiter, second half: if !exists, create and store; return (unlocking).
GetLimiterReturn(h) ==
  /\ pc[h] = "locked"
  /\ IF lim[h] = Nil
       THEN /\ lim' = [lim EXCEPT ![h] = FreeSlot]
            /\ rl' = Store(rl, ip[h], FreeSlot)
            /\ heap' = Collect([heap EXCEPT ![FreeSlot] =
                                  [CreateLimiter(rl) EXCEPT !.for = ip[h]]], rl', lim')
       ELSE UNCHANGED <<lim, rl, heap>>
  /\ Unlock(HeldByHandler(h))
  /\ pc' = [pc EXCEPT ![h] = "allow"]
  /\ UNCHANGED <<processVars, authVars, routeVars, cfg, others, now, ip, ok, waited, cleanupPc, cleanups>>

\* History: one more check admitted by bucket l, while its window is open.
Counted(l, admit) ==
  IF admit /\ l.age < Interval(rl.rate) THEN [l EXCEPT !.admitted = @ + 1] ELSE l

\* History: d more milliseconds since bucket l was constructed.
Aged(l, d) ==
  IF ~l.used THEN l
  ELSE LET a == Min(l.age + d, Interval(rl.rate))
       IN  [l EXCEPT !.age = a, !.admitted = IF a >= Interval(rl.rate) THEN 0 ELSE @]

\* A check that takes its token whether or not one is there (as
\* limiter.Reserve() does).
AllowReserving(h) ==
  /\ pc[h] = "allow"
  /\ ok' = [ok EXCEPT ![h] = AllowOk(heap[lim[h]], now)]
  /\ waited' = [waited EXCEPT ![h] = FALSE]
  /\ heap' = [heap EXCEPT ![lim[h]] =
                Counted([heap[lim[h]] EXCEPT !.tokens = Advance(heap[lim[h]], now) - TokenUnit,
                                             !.last = now],
                        AllowOk(heap[lim[h]], now))]
  /\ pc' = [pc EXCEPT ![h] = "done"]
  /\ UNCHANGED <<processVars, authVars, routeVars, cfg, rl, others, mu, now, ip, lim, cleanupPc, cleanups>>

\* if !limiter.Allow() { ... }
Allow(h) ==
  /\ pc[h] = "allow"
  /\ ok' = [ok EXCEPT ![h] = AllowOk(heap[lim[h]], now)]
  /\ waited' = [waited EXCEPT ![h] = heap[lim[h]].tokens = 0
                                      /\ now - heap[lim[h]].last = Interval(rl.rate)]
  /\ heap' = [heap EXCEPT ![lim[h]] =
                Counted(AllowState(heap[lim[h]], now), AllowOk(heap[lim[h]], now))]
  /\ pc' = [pc EXCEPT ![h] = "done"]
  /\ UNCHANGED <<processVars, authVars, routeVars, cfg, rl, others, mu, now, ip, lim, cleanupPc, cleanups>>

\* The middleware answers 429 and aborts, or calls c.Next(); the handler is
\* free again and its limiter variable is gone.
Respond(h) ==
  /\ pc[h] = "done"
  /\ pc' = [pc EXCEPT ![h] = "idle"]
  /\ ip' = [ip EXCEPT ![h] = NoIP]
  /\ lim' = [lim EXCEPT ![h] = Nil]
  /\ ok' = [ok EXCEPT ![h] = FALSE]
  /\ waited' = [waited EXCEPT ![h] = FALSE]
  /\ heap' = Collect(heap, rl, lim')
  /\ UNCHANGED <<processVars, authVars, routeVars, cfg, rl, others, mu, now, cleanupPc, cleanups>>

\* CrowdBatch requests, one after the other, each from an IP never seen
\* before and each handled to its end: every one of them adds an entry.
Crowd ==
  /\ mu = Free
  /\ others + CrowdBatch <= MaxCrowd
  /\ others' = others + CrowdBatch
  /\ UNCHANGED <<processVars, authVars, routeVars, cfg, rl, mu, heap, now, pc, ip, lim, ok, waited, cleanupPc, cleanups>>

\* ------------------------------------------------------ CleanupOldLimiters
\* The loop of CleanupOldLimiters over a map of n entries ends when count
\* deletions are done and either the range is exhausted or count > 500 breaks
\* it (count is tested before each delete and counts from 0).
LoopEnds(n, count) == count = n \/ count > CleanupCount

\* The deletions done when the loop ends: the first count at which it ends.
CleanupLoop(n) ==
  CHOOSE count \in 0..n : LoopEnds(n, count) /\ (count = 0 \/ ~LoopEnds(n, count - 1))

\* The entries one call deletes from a map of n entries.
Deleted(n) == IF n > CleanupThreshold THEN CleanupLoop(n) ELSE 0

\* CleanupOldLimiters is called: rl.mu.Lock()
CleanupLock ==
  /\ cleanupPc = "idle"
  /\ cleanups < MaxCleanups
  /\ Lock(HeldByCleanup)
  /\ cleanupPc' = "locked"
  /\ cleanups' = cleanups + 1
  /\ UNCHANGED <<processVars, authVars, routeVars, cfg, rl, others, heap, now, pc, ip, lim, ok, waited>>

\* The body, and the deferred unlock.  The map is ranged over in an order
\* the runtime chooses: any Deleted(n) of the entries go, the named IPs in
\* gone among them.
CleanupOldLimiters(gone) ==
  /\ cleanupPc = "locked"
  /\ \A i \in gone : rl.limiters[i] # Nil
  /\ LET deleted == Deleted(Size(rl, others))
     IN  /\ Cardinality(gone) <= deleted
         /\ deleted - Cardinality(gone) <= others
         /\ others' = others - (deleted - Cardinality(gone))
  /\ rl' = [rl EXCEPT !.limiters = [i \in IPs |-> IF i \in gone THEN Nil ELSE @[i]]]
  /\ heap' = Collect(heap, rl', lim)
  /\ Unlock(HeldByCleanup)
  /\ cleanupPc' = "idle"
  /\ UNCHANGED <<processVars, authVars, routeVars, cfg, now, pc, ip, lim, ok, waited, cleanups>>

\* ------------------------------------------------------------------ clock
\* Time passes: half a refill interval of the policy, or a whole one.
Delays == {Interval(rl.rate) \div 2, Interval(rl.rate)}

Tick(d) ==
  /\ now + d <= MaxIntervals * Interval(rl.rate)
  /\ now' = now + d
  /\ heap' = [s \in Slots |-> Aged(heap[s], d)]
  /\ UNCHANGED <<processVars, authVars, routeVars, cfg, rl, others, mu, pc, ip, lim, ok, waited, cleanupPc, cleanups>>

\* ------------------------------------------------------------ specification
Handle ==
  \/ \E h \in Handlers, i \in IPs : Request(h, i)
  \/ \E h \in Handlers : GetLimiterLock(h)
  \/ \E h \in Handlers : GetLimiterReturn(h)
  \/ \E h \in Handlers : Allow(h)
  \/ \E h \in Handlers : Respond(h)

\* One registry under requests, as time passes.
Next ==
  \/ Handle
  \/ \E d \in Delays : Tick(d)

Spec == Init /\ [][Next]_vars

\* A registry with all its operations: requests, the crowd, the clock (in
\* whole refill intervals) and calls of CleanupOldLimiters.  The policy plays
\* no part in CleanupOldLimiters; the registries here are the small ones.
InitCleanup == InitWith(CustomRegistries, {CHOOSE e \in Envs : e.RATE_LIMIT_RPS = Unset})

NextCleanup ==
  \/ Handle
  \/ Crowd
  \/ CleanupLock
  \/ \E gone \in SUBSET IPs : CleanupOldLimiters(gone)
  \/ Tick(Interval(rl.rate))

SpecCleanup == InitCleanup /\ [][NextCleanup]_vars

\* The steps of the operations under way (no new request, no new call).
Progress ==
  \/ \E h \in Handlers : GetLimiterLock(h)
  \/ \E h \in Handlers : GetLimiterReturn(h)
  \/ \E h \in Handlers : Allow(h)
  \/ \E h \in Handlers : Respond(h)
  \/ \E gone \in SUBSET IPs : CleanupOldLimiters(gone)

\* The process as main and RegisterAPIRoutes set it up: the configuration is
\* loaded from the environment, the routes are guarded by RateLimit() and
\* AuthRateLimit(), and nothing calls CleanupOldLimiters.  All requests come
\* within one millisecond.  The goroutine of a request is scheduled until
\* the request is answered.
InitServer == InitWith(ServedRegistries, Envs)

NextServer ==
  \/ Handle
  \/ Crowd

SpecServer == InitServer /\ [][NextServer]_vars /\ WF_vars(Progress)

\* ------------------------------------------------------------------ claims
Buckets == {s \in Slots : heap[s].used}

\* The buckets made for IP i that something still points to.
BucketsFor(i) == {s \in Buckets : heap[s].for = i}

\* The handlers that have their answer from bucket s.
Answered(s) == {h \in Handlers : pc[h] = "done" /\ lim[h] = s}

\* C1: while no time has passed since a bucket was made for an IP seen for
\* the first time, no check of it is rejected before rl.burst checks were
\* admitted, and no more than rl.burst are admitted: exactly the first
\* rl.burst checks return true and the next returns false.
C1_FreshBucketAdmitsExactlyBurst ==
  \A s \in Buckets :
    heap[s].age = 0 =>
      /\ heap[s].admitted <= rl.burst
      /\ \A h \in Answered(s) : ~ok[h] => heap[s].admitted = rl.burst

\* A first-time IP of the general registry was admitted 10 times at once and
\* is now rejected.
C1_Witness ==
  /\ rl.burst = GlobalBurst
  /\ \E s \in Buckets :
       /\ heap[s].age = 0
       /\ heap[s].admitted = GlobalBurst
       /\ \E h \in Answered(s) : ~ok[h]

RECURSIVE SumAdmitted(_)
SumAdmitted(S) ==
  IF S = {} THEN 0
  ELSE LET s == CHOOSE x \in S : TRUE IN heap[s].admitted + SumAdmitted(S \ {s})

\* C2: whatever the interleaving of the handlers, the checks admitted for one
\* IP in a window shorter than one refill interval (counted from the moment
\* its bucket was made, when the bucket is full) are at most rl.burst.
C2_NoLostUpdate ==
  \A i \in IPs :
    SumAdmitted({s \in BucketsFor(i) : heap[s].age < Interval(rl.rate)}) <= rl.burst

\* Two handlers in flight at once had their answer from the same bucket with
\* its last token at stake: one was admitted, the other rejected.
C2_Witness ==
  \E g, h \in Handlers :
    /\ g # h /\ pc[g] = "done" /\ pc[h] = "done" /\ lim[g] = lim[h]
    /\ ok[g] /\ ~ok[h]
    /\ heap[lim[g]].age < Interval(rl.rate)
    /\ heap[lim[g]].admitted = rl.burst

\* C3: the token count of every bucket, as stored and as Allow would find it
\* now, is at least 0 and at most the burst of the registry's policy.
C3_TokensWithinBurst ==
  \A s \in Buckets :
    /\ 0 <= heap[s].tokens /\ heap[s].tokens <= rl.burst * TokenUnit
    /\ 0 <= Advance(heap[s], now) /\ Advance(heap[s], now) <= rl.burst * TokenUnit

\* A bucket was full and idle for some time before its first check (the
\* refill met the cap), and a bucket was emptied and rejected a check.
C3_Witness ==
  /\ \E h \in Handlers :
       /\ pc[h] = "done" /\ ok[h]
       /\ heap[lim[h]].admitted = 1
       /\ heap[lim[h]].last = now /\ now > 0
       /\ heap[lim[h]].tokens = (rl.burst - 1) * TokenUnit
  /\ \E h \in Handlers :
       pc[h] = "done" /\ ~ok[h] /\ heap[lim[h]].tokens < TokenUnit

\* C4: a check of an empty bucket made exactly one refill interval of the
\* policy after the bucket's last admission is admitted and leaves the bucket
\* empty as of now; a check of a bucket emptied at this very time is rejected.
C4_OneTokenAfterOneInterval ==
  [][\A h \in Handlers :
       (Allow(h) /\ heap[lim[h]].tokens = 0) =>
         /\ now - heap[lim[h]].last = Interval(rl.rate) =>
              /\ ok'[h]
              /\ heap'[lim[h]].tokens = 0
              /\ heap'[lim[h]].last = now
         /\ now = heap[lim[h]].last => ~ok'[h]]_vars

\* A handler checked an empty bucket one interval after its last admission,
\* was admitted, and the bucket is empty again.
C4_Witness ==
  \E h \in Handlers :
    /\ pc[h] = "done" /\ waited[h] /\ ok[h]
    /\ heap[lim[h]].tokens = 0 /\ heap[lim[h]].last = now

\* C5: no step of a handler serving one IP changes the entry or the bucket of
\* another IP, and the bucket stored for an IP is one made for that IP (two
\* IPs never share one).
C5_IPsAreIsolated ==
  /\ [](\A i \in IPs : Lookup(rl, i) # Nil => heap[Lookup(rl, i)].for = i)
  /\ [][\A h \in Handlers :
          (GetLimiterLock(h) \/ GetLimiterReturn(h) \/ Allow(h) \/ Respond(h)) =>
            \A j \in IPs \ {ip[h]} :
              /\ Lookup(rl', j) = Lookup(rl, j)
              /\ Lookup(rl, j) # Nil => heap'[Lookup(rl, j)] = heap[Lookup(rl, j)]]_vars

\* With no time passed, one IP has used up its burst and is rejected, and
\* the other IP was admitted its full burst all the same.
C5_Witness ==
  \E i, j \in IPs :
    /\ i # j /\ Lookup(rl, i) # Nil /\ Lookup(rl, j) # Nil
    /\ heap[Lookup(rl, i)].age = 0 /\ heap[Lookup(rl, j)].age = 0
    /\ heap[Lookup(rl, i)].admitted = rl.burst
    /\ heap[Lookup(rl, j)].admitted = rl.burst
    /\ \E h \in Answered(Lookup(rl, i)) : ~ok[h]

\* C6: with no cleanup, every handler that GetLimiter has returned to holds
\* the bucket the registry stores for its IP, there is one bucket per IP, and
\* that bucket started full (before time passes it holds the burst less the
\* checks it admitted).
C6_GetOrCreateIsAtomic ==
  /\ \A h \in Handlers :
       pc[h] \in {"allow", "done"} => lim[h] # Nil /\ lim[h] = rl.limiters[ip[h]]
  /\ \A i \in IPs : Cardinality(BucketsFor(i)) <= 1
  /\ \A s \in Buckets :
       heap[s].age = 0 => heap[s].tokens = (rl.burst - heap[s].admitted) * TokenUnit

\* Two handlers asked for the bucket of the same new IP at once and both
\* hold the one bucket made, still full.
C6_Witness ==
  \E g, h \in Handlers :
    /\ g # h /\ pc[g] = "allow" /\ pc[h] = "allow" /\ ip[g] = ip[h]
    /\ lim[g] = lim[h] /\ lim[g] = rl.limiters[ip[g]]
    /\ heap[lim[g]].admitted = 0
    /\ heap[lim[g]].tokens = rl.burst * TokenUnit

\* C7: a call of CleanupOldLimiters on a registry of more than 1000 entries
\* leaves fewer than 1000.
C7_CleanupBringsSizeBelowThreshold ==
  [][\A gone \in SUBSET IPs :
       (CleanupOldLimiters(gone) /\ Size(rl, others) > CleanupThreshold) =>
         Size(rl', others') < CleanupThreshold]_vars

\* C8: in the serving process a registry that has grown beyond the threshold
\* is brought back to it by a cleanup.
C8_GrownRegistryIsCleaned ==
  (Size(rl, others) > CleanupThreshold) ~> (Size(rl, others) <= CleanupThreshold)

\* An operation is under way.
Busy == cleanupPc # "idle" \/ \E h \in Handlers : pc[h] # "idle"

\* C9: with CleanupOldLimiters called while requests are in flight, the mutex
\* is held only by an operation inside its critical section and some
\* operation under way can always take its next step (no deadlock); a
\* handler whose entry was removed still holds a bucket made for its IP; every
\* bucket, re-created ones included, started full; and every bucket holds
\* between 0 and rl.burst tokens.
C9_CleanupIsSafeWithRequests ==
  /\ mu = HeldByCleanup => cleanupPc = "locked"
  /\ \A h \in Handlers : mu = HeldByHandler(h) => pc[h] = "locked"
  /\ Busy => ENABLED Progress
  /\ \A h \in Handlers :
       pc[h] \in {"allow", "done"} => lim[h] \in Buckets /\ heap[lim[h]].for = ip[h]
  /\ \A s \in Buckets :
       /\ heap[s].age = 0 => heap[s].tokens = (rl.burst - heap[s].admitted) * TokenUnit
       /\ 0 <= heap[s].tokens /\ heap[s].tokens <= rl.burst * TokenUnit

\* A handler still holds the bucket, now empty, that a cleanup removed from
\* the registry, while the next request of the same IP has been given a new,
\* full bucket.
C9_Witness ==
  \E g, h \in Handlers :
    /\ g # h /\ ip[g] = ip[h]
    /\ pc[h] = "done" /\ lim[h] # Lookup(rl, ip[h]) /\ heap[lim[h]].tokens = 0
    /\ pc[g] = "allow" /\ lim[g] = Lookup(rl, ip[g])
    /\ heap[lim[g]].tokens = rl.burst * TokenUnit

\* The burst the configuration gives the registry.
ConfiguredBurst ==
  IF rl.name = "general" THEN cfg.RateLimitBurst ELSE cfg.AuthRateLimit

\* C10: the limiters that guard the routes are built from the configuration:
\* the general limiter refills at RATE_LIMIT_RPS tokens a second, and an IP
\* seen for the first time is admitted as many checks at once as the
\* configured burst, no more and no fewer.
C10_ConfigurationGoverns ==
  \A s \in Buckets :
    /\ heap[s].burst = ConfiguredBurst
    /\ rl.name = "general" => heap[s].limit = PerSecond(cfg.RateLimitRPS)
    /\ heap[s].age = 0 =>
         /\ heap[s].admitted <= ConfiguredBurst
         /\ \A h \in Answered(s) : ~ok[h] => heap[s].admitted = ConfiguredBurst

\* ----------------------------------------------- the documented general rate
\* docs/api.md and README.md: "General endpoints: 10 requests per second per
\* IP"; the comment on globalRateLimiter says the same.
DocumentedRPS == 10

\* The time in which the documented rate refills one token, ms.
DocumentedInterval == SecondMs \div DocumentedRPS

\* The general registry under the requests of one IP, the clock advancing by
\* the documented refill time.
InitGeneral == InitWith({globalRateLimiter}, {CHOOSE e \in Envs : e.RATE_LIMIT_RPS = Unset})

NextGeneral ==
  \/ \E h \in Handlers : Request(h, "1.2.3.4")
  \/ \E h \in Handlers : GetLimiterLock(h)
  \/ \E h \in Handlers : GetLimiterReturn(h)
  \/ \E h \in Handlers : Allow(h)
  \/ \E h \in Handlers : Respond(h)
  \/ Tick(DocumentedInterval)

SpecGeneral == InitGeneral /\ [][NextGeneral]_vars

\* C11: on the general limiter a check made 100 ms (one token's time at 10
\* per second) after the check that emptied the bucket is admitted.
C11_GeneralRefillsTenPerSecond ==
  [][\A h \in Handlers :
       (/\ Allow(h)
        /\ rl.name = "general"
        /\ heap[lim[h]].tokens = 0
        /\ now - heap[lim[h]].last = DocumentedInterval) => ok'[h]]_vars

\* C12: on the auth limiter, as long as less than a minute has passed since an
\* IP's first attempt, no attempt is rejected before 5 were admitted and no
\* more than 5 are admitted: the first 5 attempts pass and a 6th within the
\* same minute is rejected.
C12_AuthFivePerMinute ==
  rl.name = "auth" =>
    \A s \in Buckets :
      heap[s].age < MinuteMs =>
        /\ heap[s].admitted <= AuthBurst
        /\ \A h \in Answered(s) : ~ok[h] => heap[s].admitted = AuthBurst

\* An IP's attempts on the auth limiter were spread over half a minute: the
\* 5th was admitted then, and the 6th, at the same time, is rejected.
C12_Witness ==
  /\ rl.name = "auth"
  /\ \E s \in Buckets :
       /\ heap[s].age > 0 /\ heap[s].age < MinuteMs
       /\ heap[s].last = now
       /\ heap[s].admitted = AuthBurst
       /\ \E h \in Answered(s) : ~ok[h]

\* ------------------------------------------------------ JSON Web Tokens
\* A nil error.
NoError == ""

\* The first row (by primary key) among the rows that satisfy the condition;
\* NoUser when First reports gorm.ErrRecordNotFound.
First(table, rows) ==
  IF rows = {} THEN NoUser ELSE table[CHOOSE k \in rows : \A j \in rows : k <= j]

\* expMinutes := 60 // default value
DefaultExpMinutes == 60

DecimalDigits == {"0", "1", "2", "3", "4", "5", "6", "7", "8", "9"}

DigitValue(c) ==
  CASE c = "0" -> 0 [] c = "1" -> 1 [] c = "2" -> 2 [] c = "3" -> 3 [] c = "4" -> 4
    [] c = "5" -> 5 [] c = "6" -> 6 [] c = "7" -> 7 [] c = "8" -> 8 [] c = "9" -> 9

RECURSIVE Decimal(_)
Decimal(s) ==
  IF s = <<>> THEN 0 ELSE Decimal(SubSeq(s, 1, Len(s) - 1)) * 10 + DigitValue(s[Len(s)])

\* strconv.Atoi(s): an optional sign and decimal digits, nothing else.
Atoi(s) ==
  LET signed == s # <<>> /\ s[1] \in {"+", "-"}
      digits == IF signed THEN Tail(s) ELSE s
  IN  IF digits # <<>> /\ \A k \in 1..Len(digits) : digits[k] \in DecimalDigits
        THEN [ok |-> TRUE,
              v |-> IF signed /\ s[1] = "-" THEN 0 - Decimal(digits) ELSE Decimal(digits)]
        ELSE [ok |-> FALSE, v |-> 0]

\* GenerateJWT, lines 27-32: the minutes a token lives.
ExpMinutes(value) ==
  IF value # NoValue /\ Atoi(value).ok THEN Atoi(value).v ELSE DefaultExpMinutes

\* jwt.NewNumericDate(t): t truncated to the second.
NewNumericDate(t) == (t \div SecondMs) * SecondMs

\* auth.GenerateJWT(userID, email): the signed claims, NoToken on error.
GenerateJWT(userID, email) ==
  IF jwtSecret = NoSecret THEN NoToken
  ELSE [UserID |-> userID, Email |-> email, alg |-> "HS256", key |-> jwtSecret,
        ExpiresAt |-> NewNumericDate(now + ExpMinutes(jwtExpMinutes) * MinuteMs),
        IssuedAt |-> NewNumericDate(now)]

\* The signing methods of type *jwt.SigningMethodHMAC.
SigningMethodHMAC == {"HS256", "HS384", "HS512"}

\* The signing methods the library can parse.
SigningMethods == SigningMethodHMAC \cup {"RS256", "none"}

\* auth.ValidateJWT(tokenString): the error, NoError when the claims are
\* returned.
ValidateJWT(token) ==
  IF jwtSecret = NoSecret THEN "JWT_SECRET is not set"
  ELSE IF token.alg \notin SigningMethods THEN "token is malformed"
  ELSE IF token.alg \notin SigningMethodHMAC THEN "invalid signing method"
  ELSE IF token.key # jwtSecret THEN "signature is invalid"
  ELSE IF ~(now < token.ExpiresAt) THEN "token is expired"
  ELSE NoError

\* A string that is not a token.
NotAToken == [NoToken EXCEPT !.alg = "?"]

\* strings.ToLower, on the letters of the schemes used.
ToLowerChar(c) ==
  CASE c = "A" -> "a" [] c = "B" -> "b" [] c = "C" -> "c" [] c = "E" -> "e"
    [] c = "I" -> "i" [] c = "R" -> "r" [] c = "S" -> "s" [] OTHER -> c

ToLower(str) == [k \in 1..Len(str) |-> ToLowerChar(str[k])]

\* parts := strings.SplitN(authHeader, " ", 2); len(parts)
SplitParts(header) == IF header.rest = <<>> THEN 1 ELSE 2

\* parts[1], read as a token: one field that is a token, or no token at all.
TokenString(header) == IF Len(header.rest) = 1 THEN header.rest[1] ELSE NotAToken

\* db.First(&user, claims.UserID)
FindByID(table, id) == First(table, {k \in 1..Len(table) : table[k].ID = id})

\* AuthRequired, lines 18-53: the details of the 401 it answers, NoError when
\* it calls c.Next().
AuthRequired(header) ==
  IF header = NoHeader THEN "Authorization header is missing"
  ELSE IF SplitParts(header) # 2 \/ ToLower(header.scheme) # <<"b", "e", "a", "r", "e", "r">>
    THEN "Authorization header must be in format 'Bearer <token>'"
  ELSE IF ValidateJWT(TokenString(header)) # NoError
    THEN ValidateJWT(TokenString(header))
  ELSE IF FindByID(users, TokenString(header).UserID) = NoUser
    THEN "User associated with token not found"
  ELSE NoError

\* --------------------------------------------------------------- the router
\* /api requests dispatched in a behaviour for IPs other than the first; the
\* first IP sends as many as it likes (its buckets run empty).
MaxRequests == 1

FirstIP == "1.2.3.4"

StatusOK == 200
StatusCreated == 201
StatusPartialContent == 206
StatusBadRequest == 400
StatusUnauthorized == 401
StatusConflict == 409
StatusTooManyRequests == 429
StatusInternalServerError == 500
StatusServiceUnavailable == 503

\* The policy each registry was constructed with.
RegistryPolicy(r) == IF r = "general" THEN globalRateLimiter ELSE authLimiter

\* A handler of a chain: its function and, for a rate-limit middleware, the
\* registry its closure holds.
Handler(fn, r) == [fn |-> fn, reg |-> r]

\* Global middlewares with the general rate limiter among them.
GlobalMiddlewaresLimited ==
  << Handler("ErrorHandler", "none"), Handler("RequestLogger", "none"),
     Handler("SecurityHeaders", "none"), Handler("RequestID", "none"),
     Handler("CORS", "none"), Handler("RateLimit", "general") >>

\* main: router.Use(...), in this order.
GlobalMiddlewares ==
  << Handler("ErrorHandler", "none"), Handler("RequestLogger", "none"),
     Handler("SecurityHeaders", "none"), Handler("RequestID", "none"),
     Handler("CORS", "none") >>

\* api := router.Group("/api"); api.Use(RateLimit()); api.Use(ValidateContentType())
ApiMiddlewares ==
  << Handler("RateLimit", "general"), Handler("ValidateContentType", "none") >>

HealthRoutes == {"/health/", "/health/live", "/health/ready"}

AuthRoutes == {"/api/auth/register", "/api/auth/login", "/api/register", "/api/login"}

ProtectedRoutes == {"/api/protected/"}

\* All the routes behind AuthRequired.
GuardedRoutes == ProtectedRoutes \cup {"/api/protected/profile", "/api/users/me"}

Routes == HealthRoutes \cup AuthRoutes \cup ProtectedRoutes

\* The routes whose method is POST.
PostRoutes == AuthRoutes

\* RegisterAPIRoutes: the handlers a request to the route passes, in order.
Chain(route) ==
  CASE route = "/health/" ->
         GlobalMiddlewares \o <<Handler("HealthCheck", "none")>>
    [] route = "/health/live" ->
         GlobalMiddlewares \o <<Handler("LivenessCheck", "none")>>
    [] route = "/health/ready" ->
         GlobalMiddlewares \o <<Handler("ReadinessCheck", "none")>>
    [] route = "/api/auth/register" ->
         GlobalMiddlewares \o ApiMiddlewares
           \o <<Handler("AuthRateLimit", "auth"), Handler("Register", "none")>>
    [] route = "/api/auth/login" ->
         GlobalMiddlewares \o ApiMiddlewares
           \o <<Handler("AuthRateLimit", "auth"), Handler("Login", "none")>>
    [] route = "/api/register" ->
         GlobalMiddlewares \o ApiMiddlewares
           \o <<Handler("AuthRateLimit", "legacyRegister"), Handler("Register", "none")>>
    [] route = "/api/login" ->
         GlobalMiddlewares \o ApiMiddlewares
           \o <<Handler("AuthRateLimit", "legacyLogin"), Handler("Login", "none")>>
    [] route = "/api/protected/" ->
         GlobalMiddlewares \o ApiMiddlewares
           \o <<Handler("AuthRequired", "none"), Handler("ProtectedHandler", "none")>>
    [] route \in {"/api/protected/profile", "/api/users/me"} ->
         GlobalMiddlewares \o ApiMiddlewares
           \o <<Handler("AuthRequired", "none"), Handler("getUserProfile", "none")>>

\* response.SuccessResponse(c, status, ...) / response.ErrorResponse(c, status, code, ...)
SuccessResponse(status) == [status |-> status, success |-> TRUE, code |-> ""]

ErrorResponse(status, code) == [status |-> status, success |-> FALSE, code |-> code]

\* The database as a handler finds it: db is nil ("not_configured"), db.DB()
\* fails ("no_handle"), sqlDB.Ping() fails ("ping_fails"), or all is well.
DatabaseStates == {"not_configured", "no_handle", "ping_fails", "ok"}

\* A health check that reports a failing ping as healthy.
HealthCheckIgnoringPing(d) ==
  IF d = "no_handle" THEN SuccessResponse(StatusServiceUnavailable)
  ELSE SuccessResponse(StatusOK)

\* HealthCheck(db): status "error" is 503, "degraded" is 206, "ok" is 200.
HealthCheck(d) ==
  IF d = "not_configured" THEN SuccessResponse(StatusOK)
  ELSE IF d = "no_handle" THEN SuccessResponse(StatusServiceUnavailable)
  ELSE IF d = "ping_fails" THEN SuccessResponse(StatusPartialContent)
  ELSE SuccessResponse(StatusOK)

\* ReadinessCheck(db)
ReadinessCheck(d) ==
  IF d # "not_configured" /\ d \in {"no_handle", "ping_fails"}
    THEN ErrorResponse(StatusServiceUnavailable, "SERVICE_UNAVAILABLE")
    ELSE SuccessResponse(StatusOK)

\* LivenessCheck()
LivenessCheck == SuccessResponse(StatusOK)

\* The responses a route handler answers with.
HandlerResponses(fn) ==
  CASE fn = "HealthCheck" -> {HealthCheck(database)}
    [] fn = "LivenessCheck" -> {LivenessCheck}
    [] fn = "ReadinessCheck" -> {ReadinessCheck(database)}
    [] fn = "Register" ->
         {SuccessResponse(StatusCreated),
          ErrorResponse(StatusBadRequest, "BAD_REQUEST"),
          ErrorResponse(StatusBadRequest, "VALIDATION_ERROR"),
          ErrorResponse(StatusConflict, "CONFLICT"),
          ErrorResponse(StatusInternalServerError, "INTERNAL_SERVER_ERROR")}
    [] fn = "Login" ->
         {SuccessResponse(StatusOK),
          ErrorResponse(StatusBadRequest, "BAD_REQUEST"),
          ErrorResponse(StatusBadRequest, "VALIDATION_ERROR"),
          ErrorResponse(StatusUnauthorized, "UNAUTHORIZED"),
          ErrorResponse(StatusInternalServerError, "INTERNAL_SERVER_ERROR")}
    [] fn = "ProtectedHandler" -> {SuccessResponse(StatusOK)}
    [] fn = "getUserProfile" -> {SuccessResponse(StatusOK)}

\* The error code of the 429 body each rate-limit middleware writes.
LimitCode(fn) ==
  IF fn = "RateLimit" THEN "RATE_LIMIT_EXCEEDED" ELSE "AUTH_RATE_LIMIT_EXCEEDED"

\* A request arrives at the router: its route, the client IP, whether its
\* Content-Type is application/json, and its Authorization header.
Arrive(route, i, json, header) ==
  /\ server.phase = "listening"
  /\ rq.phase \in {"none", "done"}
  /\ (route \notin HealthRoutes /\ i # FirstIP) => served < MaxRequests
  /\ served' = IF route \notin HealthRoutes /\ i # FirstIP THEN served + 1 ELSE served
  /\ rq' = [NoRequest EXCEPT !.phase = "running", !.route = route, !.ip = i,
                             !.json = json, !.auth = header, !.index = 1]
  /\ UNCHANGED <<processVars, authVars, limiterVars, regs, crowd>>

\* c.Next(): the handler at index has run and the next one is due.
Continue(r) == [r EXCEPT !.ran = @ \cup {r.index}, !.index = @ + 1]

\* c.JSON(status, body)
Write(r, resp) ==
  [r EXCEPT !.status = resp.status, !.success = resp.success, !.code = resp.code]

\* c.Abort(): no handler after this one runs.
Abort(r) == [r EXCEPT !.ran = @ \cup {r.index}, !.index = Len(Chain(r.route)) + 1]

\* GetLimiter(ip) on a registry of the router: the bucket stored, or a new one.
GetLimiter(r, i) ==
  IF regs[r][i].used THEN regs[r][i]
  ELSE [CreateLimiter(RegistryPolicy(r)) EXCEPT !.for = i]

\* The bucket after limiter.Allow(), with the admission counted.
Allowed(l) ==
  IF AllowOk(l, now) THEN [AllowState(l, now) EXCEPT !.admitted = @ + 1] ELSE l

\* A rate-limit middleware that answers 429 but does not abort the chain.
LimitStepWithoutAbort(h) ==
  /\ h.reg # "none"
  /\ regs' = [regs EXCEPT ![h.reg][rq.ip] = Allowed(GetLimiter(h.reg, rq.ip))]
  /\ rq' = IF AllowOk(GetLimiter(h.reg, rq.ip), now)
             THEN Continue(rq)
             ELSE [Continue(Write(rq, ErrorResponse(StatusTooManyRequests, LimitCode(h.fn))))
                     EXCEPT !.rejectedBy = h.reg]

\* Rate-limit middlewares whose registries all write into one shared map.
LimitStepSharedMap(h) ==
  /\ h.reg # "none"
  /\ regs' = [q \in Registries |->
               [regs[q] EXCEPT ![rq.ip] = Allowed(GetLimiter(h.reg, rq.ip))]]
  /\ rq' = IF AllowOk(GetLimiter(h.reg, rq.ip), now)
             THEN Continue(rq)
             ELSE [Abort(Write(rq, ErrorResponse(StatusTooManyRequests, LimitCode(h.fn))))
                     EXCEPT !.rejectedBy = h.reg]

\* RateLimit / AuthRateLimit: limiter := registry.GetLimiter(ip); if
\* !limiter.Allow() then 429 and abort, else c.Next().
LimitStep(h) ==
  /\ h.reg # "none"
  /\ regs' = [regs EXCEPT ![h.reg][rq.ip] = Allowed(GetLimiter(h.reg, rq.ip))]
  /\ rq' = IF AllowOk(GetLimiter(h.reg, rq.ip), now)
             THEN Continue(rq)
             ELSE [Abort(Write(rq, ErrorResponse(StatusTooManyRequests, LimitCode(h.fn))))
                     EXCEPT !.rejectedBy = h.reg]

\* A Content-Type check that answers 400 but does not abort the chain.
ValidateContentTypeStepWithoutAbort(h) ==
  /\ h.fn = "ValidateContentType"
  /\ rq' = IF rq.route \in PostRoutes /\ ~rq.json
             THEN Continue(Write(rq, ErrorResponse(StatusBadRequest, "BAD_REQUEST")))
             ELSE Continue(rq)
  /\ UNCHANGED regs

\* ValidateContentType: POST, PUT and PATCH requests need application/json.
ValidateContentTypeStep(h) ==
  /\ h.fn = "ValidateContentType"
  /\ rq' = IF rq.route \in PostRoutes /\ ~rq.json
             THEN Abort(Write(rq, ErrorResponse(StatusBadRequest, "BAD_REQUEST")))
             ELSE Continue(rq)
  /\ UNCHANGED regs

\* A middleware that lets every request through.
AuthRequiredStepOpen(h) ==
  /\ h.fn = "AuthRequired"
  /\ rq' = Continue(rq)
  /\ UNCHANGED regs

\* AuthRequired: 401 UNAUTHORIZED and c.Abort() unless the header carries a
\* valid token of a stored user; else c.Next().
AuthRequiredStep(h) ==
  /\ h.fn = "AuthRequired"
  /\ rq' = IF AuthRequired(rq.auth) # NoError
             THEN Abort(Write(rq, ErrorResponse(StatusUnauthorized, "UNAUTHORIZED")))
             ELSE Continue(rq)
  /\ UNCHANGED regs

\* The middlewares main installs: each calls c.Next().
GlobalStep(h) ==
  /\ h.fn \in {"ErrorHandler", "RequestLogger", "SecurityHeaders", "RequestID", "CORS"}
  /\ rq' = Continue(rq)
  /\ UNCHANGED regs

\* The route handler answers.
RouteStep(h) ==
  /\ h.fn \in {"HealthCheck", "LivenessCheck", "ReadinessCheck", "Register", "Login",
                "ProtectedHandler", "getUserProfile"}
  /\ \E resp \in HandlerResponses(h.fn) :
       rq' = [Continue(Write(rq, resp)) EXCEPT !.handled = TRUE]
  /\ UNCHANGED regs

\* The router calls the handler the request's index points at.
Dispatch ==
  /\ server.phase # "exited"
  /\ rq.phase = "running"
  /\ rq.index <= Len(Chain(rq.route))
  /\ LET h == Chain(rq.route)[rq.index]
     IN  \/ LimitStep(h)
         \/ ValidateContentTypeStep(h)
         \/ AuthRequiredStep(h)
         \/ GlobalStep(h)
         \/ RouteStep(h)
  /\ UNCHANGED <<processVars, authVars, limiterVars, crowd, served>>

\* No handler is left to call: the response goes out.
Finish ==
  /\ server.phase # "exited"
  /\ rq.phase = "running"
  /\ rq.index > Len(Chain(rq.route))
  /\ rq' = [rq EXCEPT !.phase = "done"]
  /\ UNCHANGED <<processVars, authVars, limiterVars, regs, crowd, served>>

\* The values of a header that the route's chain reads: both on the routes
\* that read it, absent on the others.
Headers(route, readBy) == IF route \in readBy THEN BOOLEAN ELSE {FALSE}

\* The token Login issues to the user of the tests at time 0.
TestToken ==
  [UserID |-> 1, Email |-> AnaMail, alg |-> "HS256", key |-> "testsecret",
   ExpiresAt |-> DefaultExpMinutes * MinuteMs, IssuedAt |-> 0]

Bearer == <<"B", "e", "a", "r", "e", "r">>

\* The Authorization headers sent to a route: none, and on the routes behind
\* AuthRequired also that token.
AuthHeaders(route) ==
  IF route \in GuardedRoutes
    THEN {NoHeader, [scheme |-> Bearer, rest |-> <<TestToken>>]}
    ELSE {NoHeader}

\* The router of main and RegisterAPIRoutes under requests, all within one
\* millisecond.
InitRouter == InitWith({globalRateLimiter}, {CHOOSE e \in Envs : e.RATE_LIMIT_RPS = Unset})

NextRouter ==
  \/ \E route \in Routes, i \in IPs :
       \E json \in Headers(route, PostRoutes), header \in AuthHeaders(route) :
         Arrive(route, i, json, header)
  \/ Dispatch
  \/ Finish

SpecRouter == InitRouter /\ [][NextRouter]_vars

RECURSIVE AdmittedBy(_, _)
\* The requests of IP i that the registries in R admitted.
AdmittedBy(R, i) ==
  IF R = {} THEN 0
  ELSE LET r == CHOOSE x \in R : TRUE
       IN  regs[r][i].admitted + AdmittedBy(R \ {r}, i)

\* C13: the authentication routes share one auth registry: within a minute
\* an IP is admitted to at most 5 authentication requests in total, whatever
\* the routes it sends them to.
C13_OneAuthRegistry ==
  \A i \in IPs : AdmittedBy(AuthRegistries, i) <= AuthBurst

\* C14: every request a rate limiter rejects, general or auth, is answered
\* 429 with success = false and error.code = "RATE_LIMIT_EXCEEDED".
C14_RejectionBody ==
  rq.rejectedBy # "none" =>
    /\ rq.status = StatusTooManyRequests
    /\ ~rq.success
    /\ rq.code = "RATE_LIMIT_EXCEEDED"

\* Where the rate-limit middleware of registry r stands in the route's chain.
LimiterIndex(route, r) ==
  CHOOSE k \in 1..Len(Chain(route)) : Chain(route)[k].reg = r

\* C15: of a request a rate-limit middleware rejected, no handler after that
\* middleware has run, the route handler included, and its response is the
\* 429; after a rate-limit middleware that admitted the request the next
\* handler of the chain has run by the time the response goes out.
C15_RejectedStopsAdmittedProceeds ==
  /\ rq.rejectedBy # "none" =>
       /\ ~rq.handled
       /\ rq.status = StatusTooManyRequests
       /\ \A k \in rq.ran : k <= LimiterIndex(rq.route, rq.rejectedBy)
  /\ rq.phase = "done" =>
       \A k \in rq.ran :
         (Chain(rq.route)[k].reg \notin {"none", rq.rejectedBy}) => k + 1 \in rq.ran

\* A request passed the general limiter and ValidateContentType and was
\* rejected by the auth limiter; the response is out and Login never ran.
C15_Witness ==
  /\ rq.phase = "done"
  /\ rq.route = "/api/auth/login"
  /\ rq.rejectedBy = "auth"
  /\ LimiterIndex(rq.route, "general") + 1 \in rq.ran
  /\ ~rq.handled

\* C16: a check that returns false leaves the bucket as it was (token count
\* and time of last refill), so the time of the IP's next admission is not
\* put off by it.
C16_RejectLeavesBucket ==
  [][\A h \in Handlers :
       (pc[h] = "allow" /\ pc'[h] = "done" /\ ~ok'[h]) =>
         /\ heap'[lim[h]].tokens = heap[lim[h]].tokens
         /\ heap'[lim[h]].last = heap[lim[h]].last
         /\ \A d \in Delays \cup {0} :
              Advance(heap'[lim[h]], now + d) = Advance(heap[lim[h]], now + d)]_vars

\* A check was rejected some time after the bucket's last admission; the
\* bucket still carries the time of that admission.
C16_Witness ==
  \E h \in Handlers :
    /\ pc[h] = "done" /\ ~ok[h]
    /\ heap[lim[h]].last < now
    /\ heap[lim[h]].admitted = rl.burst

\* C17: a request to a health route is never rejected by a rate limiter nor
\* answered 429, and no step of it changes any registry.
C17_HealthIsNotLimited ==
  /\ [](rq.route \in HealthRoutes =>
          rq.rejectedBy = "none" /\ rq.status # StatusTooManyRequests)
  /\ [][rq'.route \in HealthRoutes => regs' = regs]_vars

\* An IP whose general bucket is empty had its health request answered by
\* the health handler.
C17_Witness ==
  /\ rq.phase = "done"
  /\ rq.route \in HealthRoutes
  /\ rq.handled
  /\ rq.status = StatusOK
  /\ regs["general"][rq.ip].used
  /\ regs["general"][rq.ip].tokens = 0

\* ------------------------------------------- the registries side by side
\* The registries on the chain of a route.
RegistriesOf(route) ==
  {Chain(route)[k].reg : k \in 1..Len(Chain(route))} \ {"none"}

\* CrowdBatch clients never seen before each send one request to the route,
\* each dispatched to its end: every registry on the chain gains an entry
\* for each of them.
CrowdArrive(route) ==
  /\ rq.phase \in {"none", "done"}
  /\ \A r \in RegistriesOf(route) : crowd[r] + CrowdBatch <= MaxCrowd
  /\ crowd' = [r \in Registries |->
                IF r \in RegistriesOf(route) THEN crowd[r] + CrowdBatch ELSE crowd[r]]
  /\ UNCHANGED <<processVars, authVars, limiterVars, regs, rq, served>>

\* len(limiters) of a registry of the router.
RegistrySize(r) == Cardinality({i \in IPs : regs[r][i].used}) + crowd[r]

\* CleanupOldLimiters called on registry r, from lock to unlock: Deleted(n)
\* entries go, those of the named IPs in gone among them.
Cleanup(r, gone) ==
  /\ cleanups < MaxCleanups
  /\ cleanups' = cleanups + 1
  /\ \A i \in gone : regs[r][i].used
  /\ \E deleted \in {Deleted(RegistrySize(r))} :
       /\ Cardinality(gone) <= deleted
       /\ deleted - Cardinality(gone) <= crowd[r]
       /\ crowd' = [crowd EXCEPT ![r] = @ - (deleted - Cardinality(gone))]
  /\ regs' = [regs EXCEPT ![r] = [i \in IPs |-> IF i \in gone THEN NoLimiter ELSE @[i]]]
  /\ UNCHANGED <<cfg, rl, others, mu, heap, now, pc, ip, lim, ok, waited, cleanupPc>>
  /\ UNCHANGED <<processVars, authVars, rq, served>>

\* The login routes, old and new: between them their chains hold the general
\* registry and two auth registries.
LoginRoutes == {"/api/auth/login", "/api/login"}

\* The router under well-formed login requests, requests without a token to
\* the protected route, and crowds, with CleanupOldLimiters called on
\* globalRateLimiter, the one registry that code outside the middleware
\* closures can reach.
NextRegistries ==
  \/ \E route \in LoginRoutes \cup ProtectedRoutes, i \in IPs :
       Arrive(route, i, route \in PostRoutes, NoHeader)
  \/ Dispatch
  \/ Finish
  \/ \E route \in LoginRoutes : CrowdArrive(route)
  \/ \E gone \in SUBSET IPs : Cleanup("general", gone)

SpecRegistries == InitRouter /\ [][NextRegistries]_vars

\* Registry r is as it was.
Untouched(r) == regs'[r] = regs[r] /\ crowd'[r] = crowd[r]

\* C18: the general and the auth registries share no state: a step of the
\* general middleware (bucket creation, token consumption) and a cleanup of
\* the general registry leave every auth registry as it was, and a step of an
\* auth middleware leaves the general registry and the other auth registries
\* as they were, whichever the IP.
C18_RegistriesShareNoState ==
  [][/\ \A r \in Registries :
          (/\ rq.phase = "running"
           /\ rq.index <= Len(Chain(rq.route))
           /\ Chain(rq.route)[rq.index].reg = r
           /\ rq' # rq) => \A q \in Registries \ {r} : Untouched(q)
     /\ \A r \in Registries :
          (cleanups' # cleanups /\ ~Untouched(r)) =>
             \A q \in Registries \ {r} : Untouched(q)]_vars

\* After a crowd on /api/auth/login and a cleanup of the general registry
\* that removed the first IP's entry there, the auth registry still holds
\* the IP's empty bucket and all the crowd's entries.
C18_Witness ==
  /\ cleanups = 1
  /\ ~regs["general"][FirstIP].used
  /\ crowd["general"] < CrowdBatch
  /\ regs["auth"][FirstIP].used
  /\ regs["auth"][FirstIP].tokens = 0
  /\ crowd["auth"] = CrowdBatch

\* ------------------------------------------------------ Register and Login
\* The limits of the validators.
MinUsernameLen == 3
MaxUsernameLen == 30
MaxEmailLen == 254
MinPasswordLen == 8
MaxPasswordLen == 128
MinTLDLen == 2
\* bcrypt hashes at most this many bytes.
MaxBcryptLen == 72

\* Strings are sequences of characters. Every character used here is one
\* byte of UTF-8, but for the lower-case letter e with an acute accent
\* (U+00E9), which is two.
TwoByteChars == {"e-acute"}

\* len(s): the bytes of the string.
ByteLen(str) == Len(str) + Cardinality({k \in 1..Len(str) : str[k] \in TwoByteChars})

Upper == {"P", "S"}

Lower == {"a", "b", "c", "d", "e", "i", "k", "l", "n", "o", "r", "s", "t", "w", "x", "y"}

Letters == Upper \cup Lower

Digits == {"0", "3", "7"}

\* unicode.IsLower(char), on the characters used.
IsLower == Lower \cup TwoByteChars

\* unicode.IsPunct(char) || unicode.IsSymbol(char), on the characters used.
Special == {"!", "#", "@", ".", "_", "-", "%", "+"}

RECURSIVE TrimLeft(_)
TrimLeft(s) == IF s # <<>> /\ Head(s) = " " THEN TrimLeft(Tail(s)) ELSE s

RECURSIVE TrimRight(_)
TrimRight(s) ==
  IF s # <<>> /\ s[Len(s)] = " " THEN TrimRight(SubSeq(s, 1, Len(s) - 1)) ELSE s

\* strings.TrimSpace
TrimSpace(s) == TrimRight(TrimLeft(s))

\* s[from..to] is not empty and holds only characters of the class.
AllIn(s, from, to, class) == from <= to /\ \A k \in from..to : s[k] \in class

\* usernameRegex: ^[a-zA-Z0-9_-]+$
usernameRegex(s) == AllIn(s, 1, Len(s), Letters \cup Digits \cup {"_", "-"})

\* emailRegex: ^[a-zA-Z0-9._%+\-]+@[a-zA-Z0-9.\-]+\.[a-zA-Z]{2,}$
emailRegex(s) ==
  \E at \in 1..Len(s), dot \in 1..Len(s) :
    /\ s[at] = "@"
    /\ s[dot] = "."
    /\ AllIn(s, 1, at - 1, Letters \cup Digits \cup {".", "_", "%", "+", "-"})
    /\ AllIn(s, at + 1, dot - 1, Letters \cup Digits \cup {".", "-"})
    /\ Len(s) - dot >= MinTLDLen
    /\ AllIn(s, dot + 1, Len(s), Letters)

\* ValidateUsername: the checks are made on a trimmed copy.
ValidateUsername(username) ==
  LET trimmed == TrimSpace(username)
  IN  IF trimmed = <<>> THEN "username is required"
      ELSE IF ByteLen(trimmed) < MinUsernameLen
        THEN "username must be at least 3 characters long"
      ELSE IF ByteLen(trimmed) > MaxUsernameLen
        THEN "username must be no more than 30 characters long"
      ELSE IF ~usernameRegex(trimmed)
        THEN "username can only contain letters, numbers, underscores, and hyphens"
      ELSE NoError

\* ValidateEmail
ValidateEmail(email) ==
  LET trimmed == TrimSpace(email)
  IN  IF trimmed = <<>> THEN "email is required"
      ELSE IF ByteLen(trimmed) > MaxEmailLen THEN "email is too long"
      ELSE IF ~emailRegex(trimmed) THEN "invalid email format"
      ELSE NoError

\* ValidatePassword
ValidatePassword(password) ==
  LET has(class) == \E k \in 1..Len(password) : password[k] \in class
  IN  IF password = <<>> THEN "password is required"
      ELSE IF ByteLen(password) < MinPasswordLen
        THEN "password must be at least 8 characters long"
      ELSE IF ByteLen(password) > MaxPasswordLen THEN "password is too long"
      ELSE IF ~has(Upper) THEN "password must contain at least one uppercase letter"
      ELSE IF ~has(IsLower) THEN "password must contain at least one lowercase letter"
      ELSE IF ~has(Digits) THEN "password must contain at least one number"
      ELSE IF ~has(Special) THEN "password must contain at least one special character"
      ELSE NoError

\* ValidateUserRegistration: the first error of username, email, password.
ValidateUserRegistration(r) ==
  IF ValidateUsername(r.username) # NoError THEN ValidateUsername(r.username)
  ELSE IF ValidateEmail(r.email) # NoError THEN ValidateEmail(r.email)
  ELSE ValidatePassword(r.password)

\* ValidateUserLogin
ValidateUserLogin(r) ==
  IF ValidateUsername(r.username) # NoError THEN ValidateUsername(r.username)
  ELSE IF TrimSpace(r.password) = <<>> THEN "password is required"
  ELSE NoError

\* The binding tag "email": an address with a local part and a host.
IsEmail(s) ==
  \E at \in 1..Len(s) :
    /\ s[at] = "@"
    /\ AllIn(s, 1, at - 1, Letters \cup Digits \cup {".", "_", "%", "+", "-"})
    /\ AllIn(s, at + 1, Len(s), Letters \cup Digits \cup {".", "-"})

\* c.ShouldBindJSON(&req) for AuthRequest: required, required+email, required.
BindAuthRequest(b) == b.username # <<>> /\ b.email # <<>> /\ IsEmail(b.email) /\ b.password # <<>>

\* c.ShouldBindJSON(&req) for LoginRequest: both fields required.
BindLoginRequest(b) == b.username # <<>> /\ b.password # <<>>

\* bcrypt.GenerateFromPassword: a salted hash; passwords over 72 bytes are
\* refused.
GenerateFromPassword(password) ==
  IF ByteLen(password) > MaxBcryptLen THEN NoHash ELSE [bcrypt |-> password]

\* bcrypt.CompareHashAndPassword(hash, password) returned nil.
CompareHashAndPassword(hash, password) == hash # NoHash /\ hash.bcrypt = password

\* A lookup that trims the username before it asks the database.
FindByTrimmedUsername(table, username) ==
  First(table, {k \in 1..Len(table) : table[k].Username = TrimSpace(username)})

\* db.Where("username = ?", req.Username).First(&user)
FindByUsername(table, username) ==
  First(table, {k \in 1..Len(table) : table[k].Username = username})

\* db.Where("username = ? OR email = ?", req.Username, req.Email).First(&existing)
FindByUsernameOrEmail(table, username, email) ==
  First(table, {k \in 1..Len(table) :
                  table[k].Username = username \/ table[k].Email = email})

\* The unique indexes of models.User on username and on email refuse the row.
UniqueViolation(table, user) ==
  \E k \in 1..Len(table) :
    table[k].Username = user.Username \/ table[k].Email = user.Email

\* The requests clients send to Register: the test's user, requests that
\* repeat its username or its email, a username with a leading space, a second
\* user, usernames of 30 and of 31 characters, and requests the binding, the
\* validators or bcrypt refuse.
Bob == <<"b", "o", "b">>

BobMail == <<"b", "@", "x", ".", "i", "o">>

Pass2 == <<"S", "e", "c", "r", "3", "t", "#", "k", "e", "y">>

LongPass == [k \in 1..(MaxBcryptLen + 1) |-> IF k = 1 THEN "P" ELSE IF k = 2 THEN "7" ELSE IF k = 3 THEN "!" ELSE "a"]

RegisterBodies ==
  { [username |-> Ana, email |-> AnaMail, password |-> Pass1],
    [username |-> Ana, email |-> BobMail, password |-> Pass2],
    [username |-> Bob, email |-> AnaMail, password |-> Pass2],
    [username |-> Bob, email |-> BobMail, password |-> Pass2],
    [username |-> <<" ">> \o Ana, email |-> BobMail, password |-> Pass1],
    [username |-> <<"a", "l">>, email |-> BobMail, password |-> Pass1],
    [username |-> Bob, email |-> <<"b", "@", "x">>, password |-> Pass1],
    [username |-> Bob, email |-> BobMail, password |-> <<"p", "a", "s", "s", "w", "o", "r", "d">>],
    [username |-> Bob, email |-> BobMail, password |-> LongPass],
    [username |-> Bob, email |-> <<>>, password |-> Pass1],
    [username |-> [k \in 1..MaxUsernameLen |-> "b"], email |-> BobMail, password |-> Pass1],
    [username |-> [k \in 1..(MaxUsernameLen + 1) |-> "b"], email |-> BobMail, password |-> Pass1],
    [username |-> <<"b", "!", "b">>, email |-> BobMail, password |-> Pass1] }

\* The requests clients send to Login.
LoginBodies ==
  { [username |-> u, email |-> <<>>, password |-> p] :
      u \in {Ana, <<" ">> \o Ana, Bob}, p \in {Pass1, Pass2} }
    \cup { [username |-> <<"a", "l">>, email |-> <<>>, password |-> Pass1],
           [username |-> Ana, email |-> <<>>, password |-> <<>>] }

\* UserSafeResponse{ID, Username, Email}
UserSafeResponse(user) == [id |-> user.ID, username |-> user.Username, email |-> user.Email]

\* response.SuccessResponse(c, status, message, data): the handler is done.
AuthSuccess(r, status, token, user) ==
  [r EXCEPT !.pc = "done",
            !.resp = [status |-> status, success |-> TRUE, code |-> "",
                      message |-> "", details |-> "",
                      token |-> token, user |-> user]]

\* response.ErrorResponse(c, status, message, code, details): the handler is done.
AuthError(r, status, code) ==
  [r EXCEPT !.pc = "done",
            !.resp = [status |-> status, success |-> FALSE, code |-> code,
                      message |-> "", details |-> "",
                      token |-> NoToken, user |-> NoSafeUser]]

\* response.UnauthorizedError(c, message, details), with the texts of the
\* answer (those of the other answers are left out).
UnauthorizedError(r, message, details) ==
  [AuthError(r, StatusUnauthorized, "UNAUTHORIZED")
     EXCEPT !.resp.message = message, !.resp.details = details]

\* Register, lines 34-46: bind and validate the request.
Register(h, body) ==
  /\ req[h].pc = "idle"
  /\ requests < MaxAuthRequests
  /\ requests' = requests + 1
  /\ LET r == [NoAuthRequest EXCEPT !.op = "register", !.body = body,
                                    !.known = registered]
     IN  req' = [req EXCEPT ![h] =
           IF ~BindAuthRequest(body) THEN AuthError(r, StatusBadRequest, "BAD_REQUEST")
           ELSE IF ValidateUserRegistration(body) # NoError
             THEN AuthError(r, StatusBadRequest, "VALIDATION_ERROR")
           ELSE [r EXCEPT !.pc = "find"]]
  /\ UNCHANGED <<processVars, limiterVars, routeVars, jwtEnv, users, registered>>

\* Register, lines 48-71: look for a user with the username or the email, then
\* hash the password.
RegisterFind(h) ==
  /\ req[h].pc = "find"
  /\ req[h].op = "register"
  /\ LET r == req[h]
         existing == FindByUsernameOrEmail(users, r.body.username, r.body.email)
         hashed == GenerateFromPassword(r.body.password)
     IN  req' = [req EXCEPT ![h] =
           IF existing # NoUser THEN AuthError(r, StatusConflict, "CONFLICT")
           ELSE IF hashed = NoHash
             THEN AuthError(r, StatusInternalServerError, "INTERNAL_SERVER_ERROR")
           ELSE [r EXCEPT !.pc = "create",
                          !.user = [ID |-> 0, Username |-> r.body.username,
                                    Email |-> r.body.email, Password |-> hashed]]]
  /\ UNCHANGED <<processVars, limiterVars, routeVars, jwtEnv, users, registered, requests>>

\* Register, lines 73-91: db.Create(&user), which fills in the primary key.
RegisterCreate(h) ==
  /\ req[h].pc = "create"
  /\ LET r == req[h]
         user == [r.user EXCEPT !.ID = Len(users) + 1]
     IN  IF UniqueViolation(users, r.user)
           THEN /\ req' = [req EXCEPT ![h] =
                     AuthError(r, StatusInternalServerError, "INTERNAL_SERVER_ERROR")]
                /\ UNCHANGED <<users, registered>>
           ELSE /\ users' = Append(users, user)
                /\ req' = [req EXCEPT ![h] =
                     AuthSuccess([r EXCEPT !.user = user], StatusCreated, NoToken,
                                 UserSafeResponse(user))]
                /\ registered' = registered \cup
                     {[ID |-> user.ID, Username |-> r.body.username,
                       Email |-> r.body.email, Password |-> r.body.password]}
  /\ UNCHANGED <<processVars, limiterVars, routeVars, jwtEnv, requests>>

\* Login, lines 98-110: bind and validate the request.
Login(h, body) ==
  /\ req[h].pc = "idle"
  /\ requests < MaxAuthRequests
  /\ requests' = requests + 1
  /\ LET r == [NoAuthRequest EXCEPT !.op = "login", !.body = body,
                                    !.known = registered]
     IN  req' = [req EXCEPT ![h] =
           IF ~BindLoginRequest(body) THEN AuthError(r, StatusBadRequest, "BAD_REQUEST")
           ELSE IF ValidateUserLogin(body) # NoError
             THEN AuthError(r, StatusBadRequest, "VALIDATION_ERROR")
           ELSE [r EXCEPT !.pc = "find"]]
  /\ UNCHANGED <<processVars, limiterVars, routeVars, jwtEnv, users, registered>>

\* A login that tells an unknown username from a wrong password.
LoginFindTelling(h) ==
  /\ req[h].pc = "find"
  /\ req[h].op = "login"
  /\ LET r == req[h]
         user == FindByUsername(users, r.body.username)
         token == GenerateJWT(user.ID, user.Email)
     IN  req' = [req EXCEPT ![h] =
           IF user = NoUser
             THEN UnauthorizedError(r, "Invalid credentials", "User not found")
           ELSE IF ~CompareHashAndPassword(user.Password, r.body.password)
             THEN UnauthorizedError([r EXCEPT !.user = user], "Invalid credentials",
                                    "Username or password is incorrect")
           ELSE IF token = NoToken
             THEN AuthError([r EXCEPT !.user = user], StatusInternalServerError,
                            "INTERNAL_SERVER_ERROR")
           ELSE AuthSuccess([r EXCEPT !.user = user], StatusOK, token,
                            UserSafeResponse(user))]
  /\ UNCHANGED <<processVars, limiterVars, routeVars, jwtEnv, users, registered, requests>>

\* Login, lines 112-153: load the user, compare the password, sign the token.
LoginFind(h) ==
  /\ req[h].pc = "find"
  /\ req[h].op = "login"
  /\ LET r == req[h]
         user == FindByUsername(users, r.body.username)
         token == GenerateJWT(user.ID, user.Email)
     IN  req' = [req EXCEPT ![h] =
           IF user = NoUser
             THEN UnauthorizedError(r, "Invalid credentials",
                                    "Username or password is incorrect")
           ELSE IF ~CompareHashAndPassword(user.Password, r.body.password)
             THEN UnauthorizedError([r EXCEPT !.user = user], "Invalid credentials",
                                    "Username or password is incorrect")
           ELSE IF token = NoToken
             THEN AuthError([r EXCEPT !.user = user], StatusInternalServerError,
                            "INTERNAL_SERVER_ERROR")
           ELSE AuthSuccess([r EXCEPT !.user = user], StatusOK, token,
                            UserSafeResponse(user))]
  /\ UNCHANGED <<processVars, limiterVars, routeVars, jwtEnv, users, registered, requests>>

\* The handler returns; its goroutine takes the next request.
AuthReturn(h) ==
  /\ req[h].pc = "done"
  /\ req' = [req EXCEPT ![h] = NoAuthRequest]
  /\ UNCHANGED <<processVars, limiterVars, routeVars, jwtEnv, users, registered, requests>>

InitAuth ==
  /\ InitRoutes
  /\ InitUsers(Secrets, {NoValue}, {<<>>})
  /\ InitLimiter({globalRateLimiter}, {CHOOSE e \in Envs : e.RATE_LIMIT_RPS = Unset})

NextAuth ==
  \E h \in AuthHandlers :
    \/ \E body \in RegisterBodies : Register(h, body)
    \/ RegisterFind(h)
    \/ RegisterCreate(h)
    \/ \E body \in LoginBodies : Login(h, body)
    \/ LoginFind(h)
    \/ AuthReturn(h)

SpecAuth == InitAuth /\ [][NextAuth]_vars

\* The registrations answered 201 before handler h took its request, with the
\* username and the password of that request.
RegisteredAs(h) ==
  {r \in req[h].known :
     r.Username = req[h].body.username /\ r.Password = req[h].body.password}

\* C19: with JWT_SECRET set, a login that arrives after a registration was
\* answered 201 and carries that user's username and password is answered 200
\* with success=true, a non-empty token and that user's id, username and
\* email; the stored record of every registered user carries the email given
\* at registration.
C19_RegisteredUserLogsIn ==
  /\ \A h \in AuthHandlers :
       (jwtSecret # NoSecret /\ req[h].op = "login" /\ req[h].pc = "done") =>
         \A r \in RegisteredAs(h) :
           /\ req[h].resp.status = StatusOK
           /\ req[h].resp.success
           /\ req[h].resp.token # NoToken
           /\ req[h].resp.user = [id |-> r.ID, username |-> r.Username, email |-> r.Email]
  /\ \A r \in registered :
       \E k \in 1..Len(users) :
         users[k].ID = r.ID /\ users[k].Username = r.Username /\ users[k].Email = r.Email

\* A user whose username starts with a space registered, and later logged in.
C19_Witness ==
  \E h \in AuthHandlers :
    /\ jwtSecret # NoSecret
    /\ req[h].op = "login"
    /\ req[h].pc = "done"
    /\ req[h].body.username # TrimSpace(req[h].body.username)
    /\ RegisteredAs(h) # {}
    /\ req[h].resp.status = StatusOK
    /\ Len(users) > 1

\* Handler h answers a valid registration while a stored user has its
\* username or its email.
AnswersRepeatedUser(h) ==
  /\ req[h].pc # "done"
  /\ req'[h].pc = "done"
  /\ req[h].op = "register"
  /\ BindAuthRequest(req[h].body)
  /\ ValidateUserRegistration(req[h].body) = NoError
  /\ \E k \in 1..Len(users) :
       \/ users[k].Username = req[h].body.username
       \/ users[k].Email = req[h].body.email

\* C20: a valid registration whose username or email is that of an already
\* stored user is answered 409 with code CONFLICT and stores no user, also
\* when such registrations are served at the same time; no two stored users
\* ever share a username or an email.
C20_DuplicateIsConflict ==
  /\ [][\A h \in AuthHandlers :
          AnswersRepeatedUser(h) =>
            /\ req'[h].resp.status = StatusConflict
            /\ req'[h].resp.code = "CONFLICT"
            /\ users' = users]_vars
  /\ [](\A j, k \in 1..Len(users) :
          j # k => /\ users[j].Username # users[k].Username
                   /\ users[j].Email # users[k].Email)

\* ------------------------------------------------- the routes behind AuthRequired
HalfHour == 30 * MinuteMs

\* A token of the given user, signing method, key and lifetime from time 0.
Token(id, alg, key, life) ==
  [UserID |-> id, Email |-> AnaMail, alg |-> alg, key |-> key, ExpiresAt |-> life,
   IssuedAt |-> 0]

\* The token of the stored user, signed with the server's secret, good for an
\* hour.
GoodToken == Token(1, "HS256", "testsecret", 2 * HalfHour)

\* The Authorization headers clients send: none; the good token under the
\* schemes Bearer, bearer, BEARER and Basic; and under Bearer no token, two
\* tokens, no token at all, a token that lives half an hour, tokens signed
\* with another key or another method, and the token of a user that is not
\* stored.
ClientHeaders ==
  { NoHeader,
    [scheme |-> Bearer, rest |-> <<>>],
    [scheme |-> Bearer, rest |-> <<GoodToken, GoodToken>>],
    [scheme |-> Bearer, rest |-> <<NotAToken>>] }
  \cup { [scheme |-> sch, rest |-> <<GoodToken>>] :
           sch \in {Bearer, ToLower(Bearer), <<"B", "E", "A", "R", "E", "R">>,
                    <<"B", "a", "s", "i", "c">>} }
  \cup { [scheme |-> Bearer, rest |-> <<t>>] :
           t \in { Token(1, "HS256", "testsecret", HalfHour),
                   Token(1, "HS512", "testsecret", 2 * HalfHour),
                   Token(1, "HS256", "guess", 2 * HalfHour),
                   Token(1, "none", "", 2 * HalfHour),
                   Token(1, "RS256", "testsecret", 2 * HalfHour),
                   Token(2, "HS256", "testsecret", 2 * HalfHour) } }

\* Half an hour passes between two requests (a request takes far less).
Wait ==
  /\ rq.phase \in {"none", "done"}
  /\ now + HalfHour <= MaxHalfHours * HalfHour
  /\ now' = now + HalfHour
  /\ regs' = [r \in Registries |-> [i \in IPs |-> Aged(regs[r][i], HalfHour)]]
  /\ UNCHANGED <<processVars, authVars, cfg, rl, others, mu, heap, pc, ip, lim, ok, waited,
                 cleanupPc, cleanups, crowd, rq, served>>

\* The server with or without JWT_SECRET, with or without the stored user.
InitProtected ==
  /\ InitRoutes
  /\ InitUsers(Secrets, {NoValue}, {<<>>, OneUser})
  /\ InitLimiter({globalRateLimiter}, {CHOOSE e \in Envs : e.RATE_LIMIT_RPS = Unset})

NextProtected ==
  \/ \E route \in GuardedRoutes, header \in ClientHeaders :
       Arrive(route, FirstIP, FALSE, header)
  \/ Dispatch
  \/ Finish
  \/ Wait

SpecProtected == InitProtected /\ [][NextProtected]_vars

\* The header carries one token that validates now (an HMAC signature under
\* JWT_SECRET, not expired) and whose user_id is that of a stored user.
CarriesValidToken(header) ==
  /\ Len(header.rest) = 1
  /\ jwtSecret # NoSecret
  /\ header.rest[1].alg \in SigningMethodHMAC
  /\ header.rest[1].key = jwtSecret
  /\ now < header.rest[1].ExpiresAt
  /\ \E k \in 1..Len(users) : users[k].ID = header.rest[1].UserID

\* The route handler of a request to a route behind AuthRequired runs.
GuardedHandlerRuns == rq.route \in GuardedRoutes /\ ~rq.handled /\ rq'.handled

\* The response of a request to a route behind AuthRequired goes out.
GuardedRequestEnds == rq.route \in GuardedRoutes /\ rq.phase = "running" /\ rq'.phase = "done"

\* C21 as stated: the handler behind AuthRequired runs only for a request
\* whose Authorization header is 'Bearer <token>' with a token that validates
\* and belongs to a stored user; every other request is answered 401
\* UNAUTHORIZED and its handler does not run.
C21_AsStated ==
  [][/\ GuardedHandlerRuns => (rq.auth.scheme = Bearer /\ CarriesValidToken(rq.auth))
     /\ (GuardedRequestEnds /\ ~(rq.auth.scheme = Bearer /\ CarriesValidToken(rq.auth))) =>
          /\ rq.status = StatusUnauthorized
          /\ rq.code = "UNAUTHORIZED"
          /\ ~rq.handled]_vars

\* C21: the handler behind AuthRequired runs only for a request whose
\* Authorization header is the scheme Bearer, in any letter case, one space
\* and a token that validates and belongs to a stored user; every other
\* request that the rate limiter admitted is answered 401 UNAUTHORIZED, and
\* the handler of no other request runs.
C21_OnlyAuthenticatedReachHandler ==
  [][/\ GuardedHandlerRuns =>
          (ToLower(rq.auth.scheme) = ToLower(Bearer) /\ CarriesValidToken(rq.auth))
     /\ (GuardedRequestEnds
           /\ ~(ToLower(rq.auth.scheme) = ToLower(Bearer) /\ CarriesValidToken(rq.auth))) =>
          /\ ~rq.handled
          /\ rq.rejectedBy = "none" =>
               (rq.status = StatusUnauthorized /\ rq.code = "UNAUTHORIZED")]_vars

\* Half an hour after the server started, a request with the scheme in lower
\* case and a valid token was served by its handler.
C21_Witness ==
  /\ rq.phase = "done"
  /\ rq.route \in GuardedRoutes
  /\ rq.auth.scheme = ToLower(Bearer)
  /\ rq.handled
  /\ rq.status = StatusOK
  /\ now = HalfHour

\* ------------------------------------------------------------ the validators
\* 3 to 30 characters, each a letter, a digit, an underscore or a hyphen.
UsernameRule(username) ==
  /\ Len(username) >= MinUsernameLen
  /\ Len(username) <= MaxUsernameLen
  /\ \A k \in 1..Len(username) : username[k] \in Letters \cup Digits \cup {"_", "-"}

\* C22: a username is accepted for registration exactly when it is 3 to 30
\* characters long and consists only of letters, digits, underscores and
\* hyphens: a registration that passes validation, and every stored user, has
\* such a username, and a registration with such a username (and a valid
\* email and password) passes validation.
C22_UsernameRule ==
  /\ \A k \in 1..Len(users) : UsernameRule(users[k].Username)
  /\ \A h \in AuthHandlers :
       req[h].op = "register" =>
         /\ (req[h].pc \in {"find", "create"} \/ req[h].resp.status = StatusCreated) =>
              UsernameRule(req[h].body.username)
         /\ ( /\ req[h].pc = "done"
              /\ UsernameRule(req[h].body.username)
              /\ BindAuthRequest(req[h].body)
              /\ ValidateEmail(req[h].body.email) = NoError
              /\ ValidatePassword(req[h].body.password) = NoError ) =>
              req[h].resp.status # StatusBadRequest

\* A password: the given characters and then n times the letter a.
Padded(chars, n) == chars \o [k \in 1..n |-> "a"]

\* The passwords the validator is called with: of 7, 8, 128 and 129
\* characters with all four kinds of character; without an uppercase letter,
\* a lowercase letter, a number or a special character; empty; with a space
\* for a special character; and of 7 and of 128 characters of which one is
\* two bytes long.
Passwords ==
  { Padded(<<"P", "0", "!">>, MinPasswordLen - 4),
    Padded(<<"P", "0", "!">>, MinPasswordLen - 3),
    Padded(<<"P", "0", "!">>, MaxPasswordLen - 3),
    Padded(<<"P", "0", "!">>, MaxPasswordLen - 2),
    <<"p", "a", "s", "s", "w", "0", "r", "d", "!">>,
    <<"P", "S", "P", "S", "0", "!", "P", "S">>,
    <<"P", "a", "s", "s", "w", "o", "r", "d", "!">>,
    <<"P", "a", "s", "s", "w", "0", "r", "d">>,
    <<"P", "a", "s", "s", "w", "0", "r", "d", " ">>,
    <<>>,
    Padded(<<"P", "0", "!", "e-acute">>, MinPasswordLen - 5),
    Padded(<<"P", "0", "!", "e-acute">>, MaxPasswordLen - 4) }

\* A caller (the tests, ValidateUserRegistration) calls ValidatePassword and
\* keeps the error it returns.
CallValidatePassword(h, password) ==
  /\ req[h].pc = "idle"
  /\ req' = [req EXCEPT ![h] =
       [NoAuthRequest EXCEPT !.op = "ValidatePassword", !.pc = "done",
                             !.body.password = password,
                             !.resp.code = ValidatePassword(password)]]
  /\ UNCHANGED <<processVars, limiterVars, routeVars, jwtEnv, users, registered, requests>>

NextValidators ==
  \E h \in AuthHandlers :
    \/ \E password \in Passwords : CallValidatePassword(h, password)
    \/ AuthReturn(h)

SpecValidators == InitAuth /\ [][NextValidators]_vars

\* At least 8 and at most 128 characters, with an uppercase letter, a
\* lowercase letter, a number and a special character among them.
PasswordRule(password) ==
  /\ Len(password) >= MinPasswordLen
  /\ Len(password) <= MaxPasswordLen
  /\ \E k \in 1..Len(password) : password[k] \in Upper
  /\ \E k \in 1..Len(password) : password[k] \in IsLower
  /\ \E k \in 1..Len(password) : password[k] \in Digits
  /\ \E k \in 1..Len(password) : password[k] \in Special

\* C23: ValidatePassword returns no error exactly when the password has at
\* least 8 and at most 128 characters and holds an uppercase letter, a
\* lowercase letter, a number and a special character; for every other
\* password it returns an error.
C23_PasswordRule ==
  \A h \in AuthHandlers :
    (req[h].op = "ValidatePassword" /\ req[h].pc = "done") =>
      (req[h].resp.code = NoError <=> PasswordRule(req[h].body.password))

\* ---------------------------------------------------------------- RequestID
\* time.Now().UnixNano() when the clock shows t milliseconds.
UnixNano(t) == t * 1000 * 1000

\* fmt.Sprintf("req_%d", time.Now().UnixNano())
generateRequestID == <<"req_", UnixNano(now)>>

\* The X-Request-ID headers clients send: none, a text of their own, and a
\* text of the form the server generates.
SuppliedIDs == {NoID, <<"abc">>, <<"req_", UnixNano(1)>>}

\* RequestID(): the request's own X-Request-ID header if it has one, else a
\* generated one, is set on the response.
RequestID(h, supplied) ==
  /\ requestID[h] = NoID
  /\ requestID' = [requestID EXCEPT ![h] =
       IF supplied = NoID THEN generateRequestID ELSE supplied]
  /\ UNCHANGED <<limiterVars, routeVars, authVars, database, server>>

\* The response has gone out; the goroutine is free for the next request.
RequestIDDone(h) ==
  /\ requestID[h] # NoID
  /\ requestID' = [requestID EXCEPT ![h] = NoID]
  /\ UNCHANGED <<limiterVars, routeVars, authVars, database, server>>

\* The clock moves on by its resolution.
ClockStep ==
  /\ now < MaxClockSteps
  /\ now' = now + 1
  /\ UNCHANGED <<processVars, authVars, routeVars, cfg, rl, others, mu, heap, pc, ip, lim,
                 ok, waited, cleanupPc, cleanups>>

NextRequestID ==
  \/ \E h \in Handlers, supplied \in SuppliedIDs : RequestID(h, supplied)
  \/ \E h \in Handlers : RequestIDDone(h)
  \/ ClockStep

SpecRequestID == InitRouter /\ [][NextRequestID]_vars

\* C24: no two requests are assigned the same X-Request-ID, be they
\* concurrent or carrying an X-Request-ID header of their own.
C24_RequestIDsUnique ==
  \A g, h \in Handlers :
    (g # h /\ requestID[g] # NoID /\ requestID[h] # NoID) => requestID[g] # requestID[h]

\* ------------------------------------------------------------ health checks
\* The connection of a configured database breaks or comes back.
DatabaseChange(d) ==
  /\ database # "not_configured"
  /\ d # "not_configured"
  /\ d # database
  /\ database' = d
  /\ UNCHANGED <<limiterVars, routeVars, authVars, requestID, server>>

\* The router with its health handlers built on a database, or, as in the
\* tests, on none.
InitHealth ==
  /\ regs = [r \in Registries |-> [i \in IPs |-> NoLimiter]]
  /\ crowd = [r \in Registries |-> 0]
  /\ rq = NoRequest
  /\ served = 0
  /\ requestID = [h \in 1..MaxHandlers |-> NoID]
  /\ database \in DatabaseStates
  /\ server = Listening
  /\ InitUsers({"testsecret"}, {NoValue}, {OneUser})
  /\ InitLimiter({globalRateLimiter}, {CHOOSE e \in Envs : e.RATE_LIMIT_RPS = Unset})

NextHealth ==
  \/ \E route \in HealthRoutes, i \in IPs : Arrive(route, i, FALSE, NoHeader)
  \/ Dispatch
  \/ Finish
  \/ \E d \in DatabaseStates : DatabaseChange(d)

SpecHealth == InitHealth /\ [][NextHealth]_vars

\* The handler of the request to the given route answers.
Answers(route) == rq.route = route /\ ~rq.handled /\ rq'.handled

\* C25: GET /health/ answers 200 when the database is reachable or none is
\* configured, 206 when its ping fails and 503 when its handle cannot be
\* obtained; GET /health/ready answers 503 when the handle cannot be obtained
\* or pinged and 200 otherwise; GET /health/live always answers 200. The
\* status the handler writes is the status of the response.
C25_HealthStatuses ==
  [][/\ Answers("/health/") =>
          rq'.status = CASE database \in {"ok", "not_configured"} -> StatusOK
                         [] database = "ping_fails" -> StatusPartialContent
                         [] database = "no_handle" -> StatusServiceUnavailable
     /\ Answers("/health/ready") =>
          rq'.status = IF database \in {"no_handle", "ping_fails"}
                         THEN StatusServiceUnavailable ELSE StatusOK
     /\ Answers("/health/live") => rq'.status = StatusOK
     /\ (rq.route \in HealthRoutes /\ rq.handled /\ rq.phase = "running") =>
          rq'.status = rq.status]_vars

\* A request to /health/ has been answered 206 while the ping failed.
C25_Witness ==
  /\ rq.phase = "done"
  /\ rq.route = "/health/"
  /\ rq.status = StatusPartialContent
  /\ database = "ping_fails"

\* ------------------------------------------------------ graceful shutdown
\* context.WithTimeout(context.Background(), 30*time.Second)
ShutdownTimeout == 30 * SecondMs

QuarterMinute == 15 * SecondMs

\* A quarter of a minute passes, also while a handler runs. The context of
\* Shutdown expires at its deadline: Shutdown waiting does not outlast it.
Elapse ==
  /\ server.phase # "exited"
  /\ now + QuarterMinute <= MaxQuarters * QuarterMinute
  /\ server.phase = "shutdown" => now + QuarterMinute <= server.deadline
  /\ now' = now + QuarterMinute
  /\ regs' = [r \in Registries |-> [i \in IPs |-> Aged(regs[r][i], QuarterMinute)]]
  /\ UNCHANGED <<processVars, authVars, cfg, rl, others, mu, heap, pc, ip, lim, ok, waited,
                 cleanupPc, cleanups, crowd, rq, served>>

\* SIGINT or SIGTERM arrives: <-quit returns and main calls server.Shutdown
\* with a context of 30 seconds, which closes the listeners.
Quit ==
  /\ server.phase = "listening"
  /\ server' = [server EXCEPT !.phase = "shutdown", !.deadline = now + ShutdownTimeout,
                               !.pending = rq.phase = "running"]
  /\ UNCHANGED <<limiterVars, routeVars, authVars, requestID, database>>

\* A Shutdown that returns at once, whatever the connections do.
ShutdownAtOnce ==
  /\ server.phase = "shutdown"
  /\ server' = [server EXCEPT !.phase = "stopped", !.forced = rq.phase = "running"]
  /\ UNCHANGED <<limiterVars, routeVars, authVars, requestID, database>>

\* server.Shutdown(ctx) returns: nil once no connection is active, the
\* context's error once its deadline has passed.
Shutdown ==
  /\ server.phase = "shutdown"
  /\ \/ /\ rq.phase # "running"
        /\ server' = [server EXCEPT !.phase = "stopped"]
     \/ /\ now >= server.deadline
        /\ server' = [server EXCEPT !.phase = "stopped", !.forced = TRUE]
  /\ UNCHANGED <<limiterVars, routeVars, authVars, requestID, database>>

\* main returns: the deferred database.CloseDB(db) runs. sqlDB.Close() makes
\* every later Ping fail; when db.DB() fails nothing is closed.
CloseDB ==
  /\ server.phase = "stopped"
  /\ server' = [server EXCEPT !.phase = "returned", !.closed = TRUE]
  /\ database' = IF database = "ok" THEN "ping_fails" ELSE database
  /\ UNCHANGED <<limiterVars, routeVars, authVars, requestID>>

\* The process ends with main: no goroutine runs any further.
Exit ==
  /\ server.phase = "returned"
  /\ server' = [server EXCEPT !.phase = "exited"]
  /\ UNCHANGED <<limiterVars, routeVars, authVars, requestID, database>>

\* main from the start of the server to the end of the process, under
\* requests to the health routes.
InitShutdown == InitRouter

NextShutdown ==
  \/ \E route \in HealthRoutes, i \in IPs : Arrive(route, i, FALSE, NoHeader)
  \/ Dispatch
  \/ Finish
  \/ Elapse
  \/ Quit
  \/ Shutdown
  \/ CloseDB
  \/ Exit

SpecShutdown == InitShutdown /\ [][NextShutdown]_vars

\* The server takes a new request.
Accepts == rq.phase # "running" /\ rq'.phase = "running"

\* C26 as stated: after the signal no request is accepted, main waits for the
\* requests in flight for at most 30 seconds, and the database is never
\* closed while a request is still being handled.
C26_AsStated ==
  [][/\ server.phase # "listening" => ~Accepts
     /\ (server.phase = "shutdown" /\ server'.phase = "stopped") =>
          (rq.phase # "running" \/ now >= server.deadline)
     /\ server'.phase = "shutdown" => now' <= server'.deadline
     /\ (~server.closed /\ server'.closed) =>
          (server.phase = "stopped" /\ rq.phase # "running")]_vars

\* C26: after the signal no request is accepted; Shutdown returns only when
\* no request is in flight or 30 seconds have passed since the signal, and
\* never waits longer; the database is closed only after Shutdown has
\* returned, and a request is still being handled then only if the 30
\* seconds ran out.
C26_ShutdownThenClose ==
  [][/\ server.phase # "listening" => ~Accepts
     /\ (server.phase = "shutdown" /\ server'.phase = "stopped") =>
          (rq.phase # "running" \/ now >= server.deadline)
     /\ server'.phase = "shutdown" => now' <= server'.deadline
     /\ (~server.closed /\ server'.closed) =>
          /\ server.phase = "stopped"
          /\ rq.phase = "running" => (server.forced /\ now >= server.deadline)]_vars

\* The database has been closed after a request that was in flight at the
\* signal completed within the 30 seconds.
C26_Witness ==
  /\ server.closed
  /\ server.pending
  /\ ~server.forced
  /\ rq.phase = "done"
  /\ now > server.deadline - ShutdownTimeout
  /\ now < server.deadline

\* ------------------------------------------------- the order of processing
RouteHandlers == {"Register", "Login", "ProtectedHandler", "getUserProfile"}

\* The place of each step in the order of processing, as stated: every rate
\* limit comes before the Content-Type check. 0: a step the order leaves out.
StatedStage ==
  [fn \in {"SecurityHeaders"} |-> 1] @@ [fn \in {"RequestID"} |-> 2] @@
  [fn \in {"RateLimit", "AuthRateLimit"} |-> 3] @@
  [fn \in {"ValidateContentType"} |-> 4] @@ [fn \in {"AuthRequired"} |-> 5] @@
  [fn \in RouteHandlers |-> 6] @@
  [fn \in {"ErrorHandler", "RequestLogger", "CORS"} |-> 0]

\* The same with the rate limit of the authentication routes after the
\* Content-Type check.
RoutedStage ==
  [fn \in {"SecurityHeaders"} |-> 1] @@ [fn \in {"RequestID"} |-> 2] @@
  [fn \in {"RateLimit"} |-> 3] @@ [fn \in {"ValidateContentType"} |-> 4] @@
  [fn \in {"AuthRateLimit", "AuthRequired"} |-> 5] @@
  [fn \in RouteHandlers |-> 6] @@
  [fn \in {"ErrorHandler", "RequestLogger", "CORS"} |-> 0]

\* A step of a request under /api runs: every step of an earlier stage has
\* run and no step of a later stage has.
RunsInOrder(stage) ==
  (rq.phase = "running" /\ rq'.ran # rq.ran /\ rq.route \notin HealthRoutes) =>
    /\ rq'.ran = rq.ran \cup {rq.index}
    /\ \A j \in 1..Len(Chain(rq.route)) :
         \E mine \in {stage[Chain(rq.route)[rq.index].fn]},
            other \in {stage[Chain(rq.route)[j].fn]} :
           (mine > 0 /\ other > 0) =>
             /\ other < mine => j \in rq.ran
             /\ other > mine => j \notin rq.ran

\* A request a middleware has answered goes out as it is: no later step runs.
StopsWhereStopped ==
  (rq.phase = "running" /\ rq.status # NoRequest.status /\ rq.route \notin HealthRoutes) =>
    (rq'.phase = "done" /\ rq'.ran = rq.ran /\ rq'.status = rq.status)

C28_CleanupRemovesAtMostHalfThreshold ==
  [][(cleanupPc = "locked" /\ cleanupPc' = "idle") =>
       /\ Size(rl, others) <= CleanupThreshold => Size(rl', others') = Size(rl, others)
       /\ Size(rl, others) > CleanupThreshold =>
            Size(rl, others) - Size(rl', others') <= CleanupCount
       /\ \A i \in IPs :
            rl'.limiters[i] # Nil =>
              /\ rl'.limiters[i] = rl.limiters[i]
              /\ heap'[rl'.limiters[i]] = heap[rl.limiters[i]]]_vars

\* ------------------------------------------------- the lifetime of a token
\* JWT_EXP_MINUTES as the shipped configurations write it, and unset.
ShippedExpirations == {NoValue, <<"6", "0", "m">>, <<"1", "5", "m">>}

\* getDurationEnv("JWT_EXP_MINUTES", 60*time.Minute), in minutes, on the
\* values "<n>m": what the configuration files ask for.
ExpirationTime(value) ==
  IF value # NoValue /\ value[Len(value)] = "m" /\ Atoi(SubSeq(value, 1, Len(value) - 1)).ok
    THEN Atoi(SubSeq(value, 1, Len(value) - 1)).v
    ELSE DefaultExpMinutes

\* The Authorization headers of the clients that logged in: the token of a
\* login response under Bearer.
SessionHeaders ==
  { [scheme |-> Bearer, rest |-> <<req[h].resp.token>>] :
      h \in {g \in AuthHandlers : req[g].resp.token # NoToken} }

\* The server with the stored user under logins and requests to the routes
\* behind AuthRequired, as the half hours pass.
InitSession ==
  /\ InitRoutes
  /\ InitUsers({"testsecret"}, ShippedExpirations, {OneUser})
  /\ InitLimiter({globalRateLimiter}, {CHOOSE e \in Envs : e.RATE_LIMIT_RPS = Unset})

NextSession ==
  \/ \E h \in AuthHandlers :
       \/ Login(h, [username |-> Ana, email |-> <<>>, password |-> Pass1])
       \/ LoginFind(h)
  \/ \E header \in SessionHeaders : Arrive("/api/users/me", FirstIP, FALSE, header)
  \/ Dispatch
  \/ Finish
  \/ Wait

SpecSession == InitSession /\ [][NextSession]_vars

\* AuthRequired lets the request through to the handler.
AuthRequiredAdmits ==
  /\ rq.phase = "running"
  /\ rq.route \in GuardedRoutes
  /\ rq.index = Len(GlobalMiddlewares) + Len(ApiMiddlewares) + 1
  /\ rq'.index = rq.index + 1

\* C29: AuthRequired accepts a token issued by login only while less than the
\* configured expiration has passed since its issue: the minutes
\* JWT_EXP_MINUTES gives as the shipped configurations write it (60m, 15m),
\* and 60 minutes when it is unset.
C29_TokenLivesAsConfigured ==
  [][AuthRequiredAdmits =>
       now < rq.auth.rest[1].IssuedAt + ExpirationTime(jwtExpMinutes) * MinuteMs]_vars

\* ------------------------------------------- what a failed login gives away
\* Handler h answers a login whose username is unknown or whose password is
\* not the user's.
LoginFails(h) ==
  /\ req[h].op = "login"
  /\ req[h].pc = "find"
  /\ req'[h].pc = "done"
  /\ \A k \in 1..Len(users) :
       users[k].Username = req[h].body.username =>
         ~CompareHashAndPassword(users[k].Password, req[h].body.password)

\* C30: a well-formed login is answered 401 UNAUTHORIZED without a token both
\* when the username is unknown and when the password is wrong, and all these
\* answers are the same in status, code, message and details.
C30_LoginDoesNotTell ==
  [][\A h \in AuthHandlers :
       LoginFails(h) =>
         /\ req'[h].resp.status = StatusUnauthorized
         /\ req'[h].resp.code = "UNAUTHORIZED"
         /\ req'[h].resp.token = NoToken
         /\ req'[h].resp.user = NoSafeUser
         /\ \A g \in AuthHandlers :
              (req'[g].op = "login" /\ req'[g].pc = "done"
                 /\ req'[g].resp.status = StatusUnauthorized) =>
                req'[g].resp = req'[h].resp]_vars

\* One login has been refused for an unknown username and another for a
\* wrong password of a stored user, with the same answer.
C30_Witness ==
  \E g, h \in AuthHandlers :
    /\ req[g].op = "login" /\ req[g].pc = "done" /\ req[g].user = NoUser
    /\ req[g].body.username \notin {users[k].Username : k \in 1..Len(users)}
    /\ req[h].op = "login" /\ req[h].pc = "done" /\ req[h].user # NoUser
    /\ req[h].user.Password # [bcrypt |-> req[h].body.password]
    /\ req[g].resp.status = StatusUnauthorized
    /\ req[g].resp = req[h].resp
====
